---- MODULE Spec2Model ----
(***************************************************************************)
(* Noga WhatsApp assistant: the Message Router (MessageRouter.js), the     *)
(* Conversation Engine (GeminiManager.js), the Scheduler Trigger           *)
(* (SchedulerManager.js) and the Conversation Store (DatabaseManager.js),  *)
(* as one state machine whose steps are the code between two awaits.       *)
(***************************************************************************)
EXTENDS Integers, Sequences, FiniteSets, TLC

(***************************************************************************)
(* Texts.  A text is a sequence of characters (one-character strings); a   *)
(* fixed template fragment of the source is a single multi-character token.*)
(***************************************************************************)
WS == {" ", "\n"}

undefined == <<"undefined">>

RECURSIVE trimStart(_)
trimStart(s) == IF s # <<>> /\ Head(s) \in WS THEN trimStart(Tail(s)) ELSE s

RECURSIVE trimEnd(_)
trimEnd(s) == IF s # <<>> /\ s[Len(s)] \in WS THEN trimEnd(SubSeq(s, 1, Len(s) - 1)) ELSE s

trim(s) == trimEnd(trimStart(s))

startsWith(s, p) == Len(p) <= Len(s) /\ SubSeq(s, 1, Len(p)) = p

includes(s, p) == \E i \in 1..(Len(s) - Len(p) + 1) : SubSeq(s, i, i + Len(p) - 1) = p

lowerChar(c) ==
    CASE c = "S" -> "s"
      [] c = "T" -> "t"
      [] c = "A" -> "a"
      [] c = "U" -> "u"
      [] c = "Q" -> "q"
      [] c = "O" -> "o"
      [] OTHER -> c

toLowerCase(s) == [i \in 1..Len(s) |-> lowerChar(s[i])]

RECURSIVE splitFrom(_, _, _)
splitFrom(s, sep, cur) ==
    IF s = <<>> THEN <<cur>>
    ELSE IF Head(s) = sep THEN <<cur>> \o splitFrom(Tail(s), sep, <<>>)
    ELSE splitFrom(Tail(s), sep, Append(cur, Head(s)))

split(s, sep) == splitFrom(s, sep, <<>>)

(***************************************************************************)
(* Principals.                                                             *)
(***************************************************************************)
Senders == {"u1", "u2"}

SCHEDULER_ID == "system_scheduler"

Users == Senders \cup {SCHEDULER_ID}

Roles == {"user", "model", "function"}

HISTORY_LIMIT == 20

MaxRows == 4

CONTEXT_TIMEOUT_MS == 600000

maxIterations == 5

GROUP == "group@g.us"

NoTime == 0

StartTime == 1

MaxTasks == 2

MaxTicks == 2

MaxCalls == 2

TaskIds == 1..MaxTasks

\* No inbound message yet; no value returned yet.
NoMessage == [senderId |-> "", groupId |-> "", type |-> "none"]

NoValue == [call |-> "none"]

VARIABLES
    chat_context,     \* DatabaseManager: chat_context rows per user_id, oldest first
    keywords,         \* DatabaseManager: keywords rows in rowid order
    processingQueue,  \* MessageRouter.processingQueue (its keys)
    lastMessageTime,  \* MessageRouter.lastMessageTime (NoTime: no entry)
    now,              \* Date.now()
    ticks,            \* number of clock advances so far
    groupId,          \* config.whatsapp.groupId ("" when not configured)
    isReady,          \* WhatsAppManager.isReady
    task,             \* one record per routeMessage invocation or schedule firing
    built,            \* the value returned by the latest direct _buildHistory call
    scheduled_prompts,  \* the store's scheduled_prompts rows
    scheduledTasks,   \* SchedulerManager.scheduledTasks: the prompt data of each cron task
    whitelist,        \* config.whatsapp.whitelist (its entries)
    received,         \* the inbound message WhatsAppManager._handleMessage got, per task id
    returned          \* the value returned by the latest direct call of a store or
                      \* resolver operation

vars == <<chat_context, keywords, processingQueue, lastMessageTime, now, ticks,
          groupId, isReady, task, built, scheduled_prompts, scheduledTasks,
          whitelist, received, returned>>

(***************************************************************************)
(* Texts of the model.                                                     *)
(***************************************************************************)
T_hi == <<"h", "i">>

T_status == <<"s", "t", "a", "t", "u", "s">>

T_STATUS == <<"S", "T", "A", "T", "U", "S">>

T_statusHe == <<"ס", "ט", "ט", "ו", "ס">>

T_ok == <<"o", "k">>

T_clear == <<"/", "c", "l", "e", "a", "r">>

T_help == <<"/", "h", "e", "l", "p">>

T_foo == <<"/", "f", "o", "o">>

T_boom == <<"b", "o", "o", "m">>

T_429 == <<"4", "2", "9">>

T_voice == <<"[Voice Message]">>

HelpText == <<"getHelpText()">>

ClearedText == <<"היסטוריית השיחה נמחקה">>

QuotaText == <<"המכסה היומית של הבינה המלאכותית נגמרה אשתף פעולה שוב בקרוב!">>

GenericText == <<"סליחה, נתקלתי בבעיה אנא נסו שוב.">>

TypeErrorText == <<"Cannot read properties of undefined (reading 'startsWith')">>

(***************************************************************************)
(* GeminiManager._isDeviceRelatedMessage: the patterns that can be written *)
(* over the alphabet of the model's texts.                                 *)
(***************************************************************************)
devicePatterns == {
    <<"t", "u", "r", "n", " ", "o", "n">>, <<"t", "u", "r", "n", " ", "o", "f", "f">>,
    <<"s", "w", "i", "t", "c", "h", " ", "o", "n">>,
    <<"s", "w", "i", "t", "c", "h", " ", "o", "f", "f">>,
    <<"t", "o", "g", "g", "l", "e">>,
    <<"l", "i", "g", "h", "t">>, <<"l", "a", "m", "p">>, <<"s", "w", "i", "t", "c", "h">>,
    <<"s", "t", "a", "t", "u", "s">>, <<"s", "t", "a", "t", "e">>,
    <<"c", "h", "e", "c", "k">>,
    <<"l", "i", "g", "h", "t", ".">>, <<"s", "w", "i", "t", "c", "h", ".">>,
    <<"s", "e", "n", "s", "o", "r", ".">>, <<"c", "l", "i", "m", "a", "t", "e", ".">>,
    <<"t", "z", "3", "0", "0", "0">>, <<"t", "s", "0", "0", "0", "4">> }

_isDeviceRelatedMessage(text) ==
    LET lowerText == toLowerCase(text)
    IN  \E pattern \in devicePatterns : includes(lowerText, pattern)

(***************************************************************************)
(* DatabaseManager.getKeywordByText                                        *)
(***************************************************************************)
NoKeyword == [id |-> 0, keyword |-> <<>>, response |-> <<>>, type |-> "none", enabled |-> 0]

variantsFirstOnly(kw) ==
    LET parts == split(kw.keyword, ",")
    IN  {trim(parts[1])}

variantsOf(kw) ==
    LET parts == split(kw.keyword, ",")
    IN  {trim(parts[i]) : i \in 1..Len(parts)}

keywordMatches(kw, trimmedText) == trimmedText \in variantsOf(kw)

getKeywordByText(kws, text) ==
    LET trimmedText == trim(text)
        hits == {i \in 1..Len(kws) : kws[i].enabled = 1 /\ keywordMatches(kws[i], trimmedText)}
    IN  IF hits = {} THEN NoKeyword
        ELSE kws[CHOOSE i \in hits : \A j \in hits : i <= j]

(***************************************************************************)
(* Conversation Store: chat_context rows of one user, oldest first.        *)
(***************************************************************************)
addChatMessage(ctx, userId, role, content) ==
    [ctx EXCEPT ![userId] = Append(@, [role |-> role, content |-> content])]

getChatHistory(ctx, userId, limit) ==
    LET rows == ctx[userId]
    IN  IF Len(rows) <= limit THEN rows
        ELSE SubSeq(rows, Len(rows) - limit + 1, Len(rows))

clearEveryHistory(ctx, userId) == [u \in DOMAIN ctx |-> <<>>]

clearChatHistory(ctx, userId) == [ctx EXCEPT ![userId] = <<>>]

\* result.changes of the DELETE: the number of rows it removed.
changes(ctx, userId) == Len(ctx[userId])

(***************************************************************************)
(* GeminiManager._buildHistory                                             *)
(***************************************************************************)
toGeminiFormat(msg) ==
    [role |-> IF msg.role = "model" THEN "model" ELSE "user", text |-> msg.content]

RECURSIVE dropLeadingModel(_)
dropLeadingModel(history) ==
    IF history # <<>> /\ Head(history).role = "model"
    THEN dropLeadingModel(Tail(history))
    ELSE history

RECURSIVE mergeSameRole(_, _)
mergeSameRole(cleaned, history) ==
    IF history = <<>> THEN cleaned
    ELSE LET msg == Head(history)
             n == Len(cleaned)
         IN  IF n = 0 \/ cleaned[n].role # msg.role
             THEN mergeSameRole(Append(cleaned, msg), Tail(history))
             ELSE mergeSameRole(
                    [cleaned EXCEPT ![n].text = @ \o <<"\n">> \o msg.text],
                    Tail(history))

buildHistoryNoMerge(ctx, userId) ==
    LET messages == getChatHistory(ctx, userId, HISTORY_LIMIT)
    IN  dropLeadingModel([i \in 1..Len(messages) |-> toGeminiFormat(messages[i])])

_buildHistory(ctx, userId) ==
    LET messages == getChatHistory(ctx, userId, HISTORY_LIMIT)
        history == [i \in 1..Len(messages) |-> toGeminiFormat(messages[i])]
    IN  mergeSameRole(<<>>, dropLeadingModel(history))

(***************************************************************************)
(* Conversation Engine (GeminiManager).  An engine record is one call of   *)
(* processMessage or processVoiceMessage: its chat session and the locals  *)
(* of _handleFunctionCalls.  audit holds the rows db.logAction recorded    *)
(* for the calls of the current iteration, auditTotal counts all of them.  *)
(***************************************************************************)
toolHandlers == {"get_device_state", "list_devices"}

NoEngine ==
    [pc |-> "none", entry |-> "none", userId |-> "", input |-> <<>>, history |-> <<>>,
     temperature |-> 0, requests |-> 0, iterations |-> 0, calls |-> <<>>, idx |-> 0,
     results |-> <<>>, lastBatch |-> <<>>, audit |-> <<>>, auditTotal |-> 0,
     text |-> <<>>]

\* generationConfig.temperature in tenths: 0.1 and 0.7.
LOW_TEMPERATURE == 1

VOICE_TEMPERATURE == 7

\* processMessage up to its first await (chat.sendMessage(text)); the user
\* turn is written by the caller of this operator with storeUserTurn.
historyIgnoringKeepHistory(ctx, userId, text, keepHistory) ==
    IF ~_isDeviceRelatedMessage(text) THEN _buildHistory(ctx, userId) ELSE <<>>

historyFor(ctx, userId, text, keepHistory) ==
    IF keepHistory \/ ~_isDeviceRelatedMessage(text)
    THEN _buildHistory(ctx, userId)
    ELSE <<>>

processMessageWarmForChat(ctx, userId, text, keepHistory) ==
    [NoEngine EXCEPT !.pc = "awaitModel", !.entry = "text", !.userId = userId,
                     !.input = text,
                     !.history = historyFor(ctx, userId, text, keepHistory),
                     !.temperature = IF _isDeviceRelatedMessage(text)
                                     THEN LOW_TEMPERATURE ELSE VOICE_TEMPERATURE,
                     !.requests = 1]

processMessage(ctx, userId, text, keepHistory) ==
    [NoEngine EXCEPT !.pc = "awaitModel", !.entry = "text", !.userId = userId,
                     !.input = text,
                     !.history = historyFor(ctx, userId, text, keepHistory),
                     !.temperature = LOW_TEMPERATURE, !.requests = 1]

processVoiceMessageNoHistory(ctx, userId) ==
    [NoEngine EXCEPT !.pc = "awaitModel", !.entry = "voice", !.userId = userId,
                     !.input = T_voice, !.history = <<>>,
                     !.temperature = VOICE_TEMPERATURE, !.requests = 1]

processVoiceMessage(ctx, userId) ==
    [NoEngine EXCEPT !.pc = "awaitModel", !.entry = "voice", !.userId = userId,
                     !.input = T_voice,
                     !.history = _buildHistory(ctx, userId),
                     !.temperature = VOICE_TEMPERATURE, !.requests = 1]

userTurnSkipped(ctx, e) == ctx

storeUserTurn(ctx, e) == addChatMessage(ctx, e.userId, "user", e.input)

handlerThrew(message) == [kind |-> "error", message |-> message]

handlerReturned == [kind |-> "ok", message |-> <<>>]

unknownFunctionIgnored(name) == handlerReturned

unknownFunction(name) == [kind |-> "error", message |-> <<"Unknown function: ", name>>]

loopContinuesUncapped(e) == e.calls # <<>>

loopContinues(e) == e.iterations < maxIterations /\ e.calls # <<>>

logActionAnonymous(userId, action, details) ==
    [user_id |-> "", action |-> action, details |-> details]

\* DatabaseManager.logAction: the audit_log row it inserts.  A requested call
\* is modelled by its name, so details {name, args} is the record of the name.
logAction(userId, action, details) ==
    [user_id |-> userId, action |-> action, details |-> details]

batchAfterFirstResult(e) == e.idx > 1

\* the for loop over functionCalls (line 351) is over: the responses collected
\* in functionResponses go out in one chat.sendMessage (line 380).
batchComplete(e) == e.idx > Len(e.calls)

\* _handleFunctionCalls from the point the engine record is at, up to the next
\* await (a handler call or chat.sendMessage(functionResponses)) or its return.
RECURSIVE runToolLoop(_)
runToolLoop(e) ==
    IF e.idx = 0
    THEN IF loopContinues(e)
         THEN runToolLoop([e EXCEPT !.idx = 1, !.results = <<>>, !.audit = <<>>])
         ELSE [e EXCEPT !.pc = "return"]
    ELSE IF batchComplete(e)
    THEN [e EXCEPT !.pc = "awaitModel", !.lastBatch = e.results, !.requests = @ + 1]
    ELSE LET name == e.calls[e.idx]
             logged == [e EXCEPT
                          !.audit = Append(@, logAction(e.userId, "function_call",
                                                        [name |-> name])),
                          !.auditTotal = @ + 1]
         IN  IF name \in toolHandlers
             THEN [logged EXCEPT !.pc = "awaitTool"]
             ELSE runToolLoop([logged EXCEPT
                     !.results = Append(@, [name |-> name, response |-> unknownFunction(name)]),
                     !.idx = @ + 1])

\* result.response of a chat.sendMessage: the first one, or one of the loop
\* (line 381-382: currentResponse = ...; iterations++).
onModelResponse(e, resp) ==
    runToolLoop([e EXCEPT !.calls = resp.calls, !.text = resp.text, !.idx = 0,
                          !.iterations = IF e.requests > 1 THEN @ + 1 ELSE @])

toolErrorAborts(e, response) ==
    IF response.kind = "error"
    THEN [e EXCEPT !.pc = "failed"]
    ELSE runToolLoop([e EXCEPT
            !.results = Append(@, [name |-> e.calls[e.idx], response |-> response]),
            !.idx = @ + 1])

\* a handler's promise settles (lines 360-376), then the loop goes on.
onToolResult(e, response) ==
    runToolLoop([e EXCEPT
        !.results = Append(@, [name |-> e.calls[e.idx], response |-> response]),
        !.idx = @ + 1])

(***************************************************************************)
(* Tasks: one record per routeMessage invocation (kind "route") or per     *)
(* firing of a scheduled prompt's callback (kind "fire").                  *)
(***************************************************************************)
NoTask ==
    [kind |-> "idle", pc |-> "idle", from |-> "", body |-> <<>>, voice |-> FALSE,
     at |-> NoTime, path |-> "none", kw |-> NoKeyword, eng |-> NoEngine, engineCalls |-> 0,
     sending |-> <<>>, out |-> <<>>, reacted |-> FALSE,
     result |-> "none", ret |-> <<>>, error |-> <<>>]

T_quota == <<"q", "u", "o", "t", "a">>

isQuotaErrorCaseSensitive(message) ==
    message # <<>> /\ (includes(message, T_429) \/ includes(message, T_quota))

isQuotaError(message) ==
    message # <<>> /\ (includes(message, T_429) \/ includes(toLowerCase(message), T_quota))

finished(t, result) == [t EXCEPT !.pc = "done", !.result = result]

handlerReturnsSendsAnyText(t, response) ==
    [t EXCEPT !.ret = response, !.pc = "send", !.sending = response]

\* routeMessage lines 71-74, the scheduler callback lines 83-89: the handler
\* (or the engine) returned `response`.
handlerReturns(t, response) ==
    LET r == [t EXCEPT !.ret = response]
    IN  IF t.kind = "route"
        THEN IF response # <<>>
             THEN [r EXCEPT !.pc = "send", !.sending = response]
             ELSE finished(r, "ok")
        ELSE IF trim(response) # <<>>
             THEN [r EXCEPT !.pc = "send", !.sending = response]
             ELSE finished(r, "empty")

\* routeMessage lines 75-87, the scheduler callback lines 91-93.
handlerThrows(t, message) ==
    LET r == [t EXCEPT !.error = message]
    IN  IF t.kind = "route"
        THEN [r EXCEPT !.pc = "sendErr",
                       !.sending = IF isQuotaError(message) THEN QuotaText ELSE GenericText]
        ELSE finished(r, "failed")

markerKeptForever(queue, t) == queue

\* routeMessage lines 91-94 (finally), which a completing invocation runs.
queueAfter(queue, t) ==
    IF t.kind = "route" /\ t.pc = "done" THEN queue \ {t.from} ELSE queue

engineFailsOnPendingCalls(t, e) ==
    IF e.pc = "return" /\ e.calls # <<>>
    THEN handlerThrows([t EXCEPT !.eng = [e EXCEPT !.pc = "failed"]], T_boom)
    ELSE IF e.pc = "return"
    THEN handlerReturns([t EXCEPT !.eng = [e EXCEPT !.pc = "returned"]], e.text)
    ELSE [t EXCEPT !.eng = e]

\* The engine call of task t goes on with engine record e (after runToolLoop):
\* it awaits again, or returns its text to the handler (lines 166-199).
engineGoesOn(t, e) ==
    IF e.pc = "return"
    THEN handlerReturns([t EXCEPT !.eng = [e EXCEPT !.pc = "returned"]], e.text)
    ELSE [t EXCEPT !.eng = e]

modelTurnSkipped(ctx, e) == ctx

storeModelTurn(ctx, e) ==
    IF e.pc = "return" THEN addChatMessage(ctx, e.userId, "model", e.text) ELSE ctx

startEngine(t, e) == [t EXCEPT !.eng = e, !.engineCalls = @ + 1]

(***************************************************************************)
(* Message Router (MessageRouter.js)                                       *)
(***************************************************************************)
T_status_cmd == <<"/", "s", "t", "a", "t", "u", "s">>

T_helpHe == <<"/", "ע", "ז", "ר", "ה">>

T_statusCmdHe == <<"/", "ס", "ט", "ט", "ו", "ס">>

T_clearHe == <<"/", "נ", "ק", "ה">>

StatusText == <<"getStatusText()">>

\* handleCommand: no await before the engine call of the default branch.
handleCommand(ctx, t) ==
    LET command == trim(toLowerCase(t.body))
        p == [t EXCEPT !.path = "command"]
    IN  IF command \in {T_help, T_helpHe}
        THEN [t |-> handlerReturns(p, HelpText), ctx |-> ctx]
        ELSE IF command \in {T_status_cmd, T_statusCmdHe}
        THEN [t |-> handlerReturns(p, StatusText), ctx |-> ctx]
        ELSE IF command \in {T_clear, T_clearHe}
        THEN [t |-> handlerReturns(p, ClearedText), ctx |-> clearChatHistory(ctx, t.from)]
        ELSE LET e == processMessage(ctx, t.from, t.body, FALSE)
             IN  [t |-> startEngine([p EXCEPT !.pc = "engine"], e),
                  ctx |-> storeUserTurn(ctx, e)]

\* handleTextMessage up to its first await (reactToMessage).
handleTextMessage(kws, t) ==
    LET keywordMatch == getKeywordByText(kws, trim(t.body))
    IN  [t EXCEPT !.pc = "react", !.kw = keywordMatch,
                  !.path = IF keywordMatch = NoKeyword THEN "text"
                           ELSE IF keywordMatch.type = "ai" THEN "kwAI" ELSE "kwStatic"]

dispatchSkippingCommands(ctx, kws, t) ==
    IF t.body = undefined
    THEN [t |-> handlerThrows(t, TypeErrorText), ctx |-> ctx]
    ELSE IF t.voice
    THEN [t |-> [t EXCEPT !.pc = "react", !.path = "voice"], ctx |-> ctx]
    ELSE IF trim(t.body) # <<>>
    THEN [t |-> handleTextMessage(kws, t), ctx |-> ctx]
    ELSE [t |-> finished([t EXCEPT !.path = "ignored"], "ignored"), ctx |-> ctx]

\* routeMessage lines 50-69, up to the first await of the chosen handler.
dispatch(ctx, kws, t) ==
    IF t.body = undefined
    THEN [t |-> handlerThrows(t, TypeErrorText), ctx |-> ctx]
    ELSE IF startsWith(t.body, <<"/">>)
    THEN handleCommand(ctx, t)
    ELSE IF t.voice
    THEN [t |-> [t EXCEPT !.pc = "react", !.path = "voice"], ctx |-> ctx]
    ELSE IF trim(t.body) # <<>>
    THEN [t |-> handleTextMessage(kws, t), ctx |-> ctx]
    ELSE [t |-> finished([t EXCEPT !.path = "ignored"], "ignored"), ctx |-> ctx]

\* routeMessage lines 33-38.
inactivityReset(ctx, last, from, time) ==
    IF last[from] # NoTime /\ (time - last[from]) > CONTEXT_TIMEOUT_MS
    THEN clearChatHistory(ctx, from)
    ELSE ctx

neverProcessing(queue, from) == FALSE

anyoneProcessing(queue, from) == queue # {}

\* routeMessage line 42.
alreadyProcessing(queue, from) == from \in queue

augmentedMessagePlain(kw, body) == body

augmentedMessage(kw, body) ==
    <<"[Custom Instructions: ">> \o kw.response \o <<"]\n\nUser message: ">> \o body

\* routeMessage up to its first await or its return (lines 30-71).
routeMessage(i, from, body, voice) ==
    /\ task[i].pc = "idle"
    /\ \A j \in 1..(i - 1) : task[j].pc # "idle"
    /\ LET ctx1 == inactivityReset(chat_context, lastMessageTime, from, now)
           t0 == [NoTask EXCEPT !.kind = "route", !.from = from, !.body = body,
                                !.voice = voice, !.at = now]
       IN  /\ lastMessageTime' = [lastMessageTime EXCEPT ![from] = now]
           /\ IF alreadyProcessing(processingQueue, from)
              THEN /\ task' = [task EXCEPT ![i] = [t0 EXCEPT !.pc = "dropped",
                                                             !.result = "dropped"]]
                   /\ chat_context' = ctx1
                   /\ UNCHANGED processingQueue
              ELSE LET d == dispatch(ctx1, keywords, t0)
                   IN  /\ task' = [task EXCEPT ![i] = d.t]
                       /\ chat_context' = d.ctx
                       /\ processingQueue' = queueAfter(processingQueue \cup {from}, d.t)
    /\ UNCHANGED <<keywords, now, ticks, groupId, isReady, built,
                   scheduled_prompts, scheduledTasks,
                   whitelist, returned>>

\* The registered callback (MessageRouter.init, lines 18-20) is invoked with
\* a message that was already admitted.
RouteMessage(i, from, body, voice) ==
    /\ routeMessage(i, from, body, voice)
    /\ UNCHANGED received

\* the reaction's promise settles (its failure is ignored, lines 112-116,
\* 123-127, 132-136, 153-157) and the handler goes on to its next await.
ReactDone(i) ==
    /\ task[i].pc = "react"
    /\ LET t == [task[i] EXCEPT !.reacted = TRUE]
           e == IF t.path = "voice" THEN processVoiceMessage(chat_context, t.from)
                ELSE IF t.path = "kwAI"
                THEN processMessage(chat_context, t.from, augmentedMessage(t.kw, t.body), TRUE)
                ELSE processMessage(chat_context, t.from, t.body, FALSE)
           t1 == IF t.path = "kwStatic"
                 THEN handlerReturns(t, t.kw.response)
                 ELSE startEngine([t EXCEPT !.pc = "engine"], e)
       IN  /\ task' = [task EXCEPT ![i] = t1]
           /\ chat_context' = IF t.path = "kwStatic" THEN chat_context
                              ELSE storeUserTurn(chat_context, e)
           /\ processingQueue' = queueAfter(processingQueue, t1)
    /\ UNCHANGED <<keywords, lastMessageTime, now, ticks, groupId, isReady, built,
                   scheduled_prompts, scheduledTasks,
                   whitelist, received, returned>>

\* geminiManager.clearHistory (line 37) throws, e.g. the DELETE statement
\* fails: routeMessage rejects there, before line 39 and outside its try.
ClearHistoryFails(i, from, body, voice, message) ==
    /\ task[i].pc = "idle"
    /\ \A j \in 1..(i - 1) : task[j].pc # "idle"
    /\ lastMessageTime[from] # NoTime
    /\ (now - lastMessageTime[from]) > CONTEXT_TIMEOUT_MS
    /\ task' = [task EXCEPT ![i] =
                  [NoTask EXCEPT !.kind = "route", !.from = from, !.body = body,
                                 !.voice = voice, !.at = now, !.pc = "done",
                                 !.result = "rejected", !.error = message]]
    /\ UNCHANGED <<chat_context, keywords, processingQueue, lastMessageTime, now, ticks,
                   groupId, isReady, built,
                   scheduled_prompts, scheduledTasks,
                   whitelist, received, returned>>

(***************************************************************************)
(* The awaited promises of an engine call settle.                          *)
(***************************************************************************)
EngineAt(i, pc) == task[i].pc = "engine" /\ task[i].eng.pc = pc

EngineStep(i, e) ==
    LET t1 == engineGoesOn(task[i], e)
    IN  /\ task' = [task EXCEPT ![i] = t1]
        /\ chat_context' = storeModelTurn(chat_context, e)
        /\ processingQueue' = queueAfter(processingQueue, t1)
        /\ UNCHANGED <<keywords, lastMessageTime, now, ticks, groupId, isReady, built,
                   scheduled_prompts, scheduledTasks,
                   whitelist, received, returned>>

\* chat.sendMessage resolves with a response (lines 147-148, 380-382).
ModelResponds(i, resp) ==
    /\ EngineAt(i, "awaitModel")
    /\ EngineStep(i, onModelResponse(task[i].eng, resp))

\* chat.sendMessage rejects: processMessage rethrows (lines 200-203).
ModelFails(i, message) ==
    /\ EngineAt(i, "awaitModel")
    /\ LET t1 == handlerThrows([task[i] EXCEPT !.eng.pc = "failed"], message)
       IN  /\ task' = [task EXCEPT ![i] = t1]
           /\ processingQueue' = queueAfter(processingQueue, t1)
    /\ UNCHANGED <<chat_context, keywords, lastMessageTime, now, ticks, groupId,
                   isReady, built,
                   scheduled_prompts, scheduledTasks,
                   whitelist, received, returned>>

\* this.toolHandlers[name](args) resolves (line 360).
ToolReturns(i) ==
    /\ EngineAt(i, "awaitTool")
    /\ EngineStep(i, onToolResult(task[i].eng, handlerReturned))

\* this.toolHandlers[name](args) rejects (lines 366-369).
ToolThrows(i, message) ==
    /\ EngineAt(i, "awaitTool")
    /\ EngineStep(i, onToolResult(task[i].eng, handlerThrew(message)))

(***************************************************************************)
(* whatsappManager.sendMessage settles.                                    *)
(***************************************************************************)
\* the destination of a task's sends: message.chat (here the sender's direct
\* chat) for routeMessage, config.whatsapp.groupId for a schedule firing.
chatOf(t) == IF t.kind = "route" THEN t.from ELSE groupId

sentRecord(t, ok) == Append(t.out, [to |-> chatOf(t), text |-> t.sending, ok |-> ok])

SendDone(i) ==
    /\ task[i].pc = "send"
    /\ LET t1 == finished([task[i] EXCEPT !.out = sentRecord(task[i], TRUE)],
                          IF task[i].kind = "route" THEN "ok" ELSE "sent")
       IN  /\ task' = [task EXCEPT ![i] = t1]
           /\ processingQueue' = queueAfter(processingQueue, t1)
    /\ UNCHANGED <<chat_context, keywords, lastMessageTime, now, ticks, groupId,
                   isReady, built,
                   scheduled_prompts, scheduledTasks,
                   whitelist, received, returned>>

SendFails(i, message) ==
    /\ task[i].pc = "send"
    /\ LET t1 == handlerThrows([task[i] EXCEPT !.out = sentRecord(task[i], FALSE)], message)
       IN  /\ task' = [task EXCEPT ![i] = t1]
           /\ processingQueue' = queueAfter(processingQueue, t1)
    /\ UNCHANGED <<chat_context, keywords, lastMessageTime, now, ticks, groupId,
                   isReady, built,
                   scheduled_prompts, scheduledTasks,
                   whitelist, received, returned>>

\* the send of the error text settles; its failure is absorbed (lines 82-90).
ErrorSendDone(i, ok) ==
    /\ task[i].pc = "sendErr"
    /\ LET t1 == finished([task[i] EXCEPT !.out = sentRecord(task[i], ok)], "failed")
       IN  /\ task' = [task EXCEPT ![i] = t1]
           /\ processingQueue' = queueAfter(processingQueue, t1)
    /\ UNCHANGED <<chat_context, keywords, lastMessageTime, now, ticks, groupId,
                   isReady, built,
                   scheduled_prompts, scheduledTasks,
                   whitelist, received, returned>>

(***************************************************************************)
(* GeminiManager.generateBroadcastMessage.  The event data is modelled by  *)
(* its event name, kept in the task's body; the task's ret is the text the *)
(* function returns.                                                       *)
(***************************************************************************)
\* generationConfig.temperature of the announcement chat, in tenths.
BROADCAST_TEMPERATURE == 7

\* the fixed words of the fallback template (line 330).
FallbackPrefix == "עדכון מערכת: "

\* up to its await (chat.sendMessage(prompt)): startChat is given no history.
generateBroadcastMessage(eventData) ==
    [NoEngine EXCEPT !.pc = "awaitModel", !.entry = "broadcast",
                     !.input = <<"System Event: ">> \o eventData,
                     !.history = <<>>,
                     !.temperature = BROADCAST_TEMPERATURE, !.requests = 1]

broadcastRethrows(t, message) == finished([t EXCEPT !.error = message], "failed")

\* the catch block (lines 326-331).
broadcastFallback(t, message) ==
    finished([t EXCEPT !.error = message, !.ret = <<FallbackPrefix>> \o t.body], "ok")

GenerateBroadcast(i, event) ==
    /\ task[i].pc = "idle"
    /\ \A j \in 1..(i - 1) : task[j].pc # "idle"
    /\ task' = [task EXCEPT ![i] =
                  [NoTask EXCEPT !.kind = "broadcast", !.pc = "broadcast",
                                 !.body = event, !.at = now,
                                 !.eng = generateBroadcastMessage(event)]]
    /\ UNCHANGED <<chat_context, keywords, processingQueue, lastMessageTime, now, ticks,
                   groupId, isReady, built, scheduled_prompts, scheduledTasks,
                   whitelist, received, returned>>

\* chat.sendMessage resolves: response.text() is returned (lines 318-324);
\* function calls the response may carry are never looked at.
BroadcastResponds(i, resp) ==
    /\ task[i].pc = "broadcast" /\ task[i].eng.pc = "awaitModel"
    /\ task' = [task EXCEPT ![i] =
                  finished([task[i] EXCEPT !.eng.pc = "returned", !.eng.calls = resp.calls,
                                           !.eng.text = resp.text, !.ret = resp.text],
                           "ok")]
    /\ UNCHANGED <<chat_context, keywords, processingQueue, lastMessageTime, now, ticks,
                   groupId, isReady, built, scheduled_prompts, scheduledTasks,
                   whitelist, received, returned>>

\* chat.sendMessage rejects.
BroadcastFails(i, message) ==
    /\ task[i].pc = "broadcast" /\ task[i].eng.pc = "awaitModel"
    /\ task' = [task EXCEPT ![i] =
                  broadcastFallback([task[i] EXCEPT !.eng.pc = "failed"], message)]
    /\ UNCHANGED <<chat_context, keywords, processingQueue, lastMessageTime, now, ticks,
                   groupId, isReady, built, scheduled_prompts, scheduledTasks,
                   whitelist, received, returned>>

(***************************************************************************)
(* WhatsAppManager._handleMessage and _isAllowed: the gate in front of the *)
(* router callback.  A direct message has groupId "" (null in the code);   *)
(* protocol messages, status broadcasts and the bot's own messages are not *)
(* among the inbound messages considered.                                  *)
(***************************************************************************)
isAllowedGroupUnchecked(wl, configured, senderId, gid) ==
    IF gid = configured THEN TRUE
    ELSE IF wl # {} THEN senderId \in wl
    ELSE FALSE

_isAllowed(wl, configured, senderId, gid) ==
    IF configured # "" /\ gid = configured THEN TRUE
    ELSE IF wl # {} THEN senderId \in wl
    ELSE FALSE

\* _handleMessage from the whitelist check (line 261) to the callback (line
\* 308), which runs routeMessage up to its first await.
HandleMessage(i, senderId, gid, body, voice) ==
    /\ received[i] = NoMessage
    /\ \A j \in 1..(i - 1) : received[j] # NoMessage
    /\ received' = [received EXCEPT ![i] =
                      [senderId |-> senderId, groupId |-> gid,
                       type |-> IF voice THEN "ptt" ELSE "chat"]]
    /\ IF _isAllowed(whitelist, groupId, senderId, gid)
       THEN routeMessage(i, senderId, body, voice)
       ELSE /\ task[i].pc = "idle"
            /\ task' = [task EXCEPT ![i] =
                          [NoTask EXCEPT !.kind = "ignored", !.pc = "done",
                                         !.from = senderId, !.result = "ignored"]]
            /\ UNCHANGED <<chat_context, keywords, processingQueue, lastMessageTime, now,
                           ticks, groupId, isReady, built, scheduled_prompts,
                           scheduledTasks, whitelist, returned>>

(***************************************************************************)
(* Home Assistant recognition: findActionAndEntity.                       *)
(***************************************************************************)
\* the alternatives of the two regular expressions (lines 441-442).
offWords ==
    { <<"כ", "ב", "ה">>,
      <<"ת", "כ", "ב", "ה">>,
      <<"ס", "ג", "ו", "ר">>,
      <<"כ", "ב", "י">>,
      <<"ל", "ה", "כ", "ב", "ו", "ת">>,
      <<"ל", "כ", "ב", "ו", "ת">>,
      <<"ת", "י", "כ", "ב", "ה">> }

onWords ==
    { <<"ד", "ל">>,
      <<"ת", "ד", "ל", "י", "ק">>,
      <<"פ", "ת", "ח">>,
      <<"ד", "ל", "י", "ק", "י">>,
      <<"ל", "ה", "ד", "ל", "י", "ק">>,
      <<"ת", "ד", "ל", "י", "ק", "י">>,
      <<"פ", "ת", "י", "ח", "ה">> }

\* the null the function returns.
NoEntity == [entity_id |-> "null", action |-> "null"]

locationsNeverMentioned(lowerText, mappings) == {}

\* step 1: the locations of the mappings that the lowercased text contains.
mentionedLocations(lowerText, mappings) ==
    { mappings[k].location : k \in { j \in DOMAIN mappings :
          /\ mappings[j].location # <<>>
          /\ includes(lowerText, toLowerCase(mappings[j].location)) } }

\* candidates.sort((a, b) => b.nickname.length - a.nickname.length)[0]: the
\* sort is stable, so the head is the first candidate of maximal length.
longestNickname(candidates) ==
    LET k == CHOOSE k \in DOMAIN candidates :
                /\ \A j \in DOMAIN candidates :
                        Len(candidates[j].nickname) <= Len(candidates[k].nickname)
                /\ \A j \in 1..(k - 1) :
                        Len(candidates[j].nickname) < Len(candidates[k].nickname)
    IN  candidates[k]

findActionAndEntity(text, mappings) ==
    IF text = <<>> THEN NoEntity
    ELSE
    LET lowerText == toLowerCase(text)
        locations == mentionedLocations(lowerText, mappings)
        isOff == \E w \in offWords : includes(lowerText, w)
        isOn == \E w \in onWords : includes(lowerText, w)
        action == IF isOff THEN "turn_off" ELSE IF isOn THEN "turn_on" ELSE "toggle"
        candidates == SelectSeq(mappings,
                        LAMBDA m : includes(lowerText, toLowerCase(m.nickname)))
        locationMatches == SelectSeq(candidates,
                        LAMBDA c : c.location # <<>> /\ c.location \in locations)
        narrowed == IF locations # {} /\ locationMatches # <<>>
                    THEN locationMatches ELSE candidates
    IN  IF candidates = <<>> THEN NoEntity
        ELSE [entity_id |-> longestNickname(narrowed).entity_id, action |-> action]

FindActionAndEntity(text, mappings) ==
    /\ returned' = [call |-> "findActionAndEntity", text |-> text, mappings |-> mappings,
                    value |-> findActionAndEntity(text, mappings)]
    /\ UNCHANGED <<chat_context, keywords, processingQueue, lastMessageTime, now, ticks,
                   groupId, isReady, task, built, scheduled_prompts, scheduledTasks,
                   whitelist, received>>

(***************************************************************************)
(* Dashboard (server.js): the update of a keyword rule.  A request body    *)
(* field that was not sent is Undefined.                                   *)
(***************************************************************************)
Undefined == "undefined"

\* the UNIQUE COLLATE NOCASE constraint of keywords.keyword (line 410).
uniqueViolation(rows, id, keyword) ==
    \E k \in DOMAIN rows :
        rows[k].id # id /\ toLowerCase(rows[k].keyword) = toLowerCase(keyword)

\* enabled !== false (line 233).
enabledUnlessFalse(enabled) == enabled # "false"

\* DatabaseManager.updateKeyword: UPDATE keywords SET ... WHERE id = ?
updateKeyword(rows, id, keyword, response, enabled, type) ==
    [k \in DOMAIN rows |->
        IF rows[k].id = id
        THEN [rows[k] EXCEPT !.keyword = trim(keyword), !.response = response,
                             !.enabled = IF enabled THEN 1 ELSE 0, !.type = type]
        ELSE rows[k]]

\* PUT /api/keywords/:id with body {keyword, response, enabled, type}.
PutKeyword(id, body) ==
    /\ IF body.keyword = <<>> \/ body.response = <<>>
       THEN /\ returned' = [call |-> "PUT /api/keywords", id |-> id, body |-> body,
                            status |-> 400]
            /\ UNCHANGED keywords
       ELSE IF uniqueViolation(keywords, id, trim(body.keyword))
       THEN /\ returned' = [call |-> "PUT /api/keywords", id |-> id, body |-> body,
                            status |-> 409]
            /\ UNCHANGED keywords
       ELSE /\ keywords' = updateKeyword(keywords, id, body.keyword, body.response,
                                         enabledUnlessFalse(body.enabled),
                                         IF body.type = Undefined THEN "static"
                                         ELSE body.type)
            /\ returned' = [call |-> "PUT /api/keywords", id |-> id, body |-> body,
                            status |-> 200]
    /\ UNCHANGED <<chat_context, processingQueue, lastMessageTime, now, ticks,
                   groupId, isReady, task, built, scheduled_prompts, scheduledTasks,
                   whitelist, received>>

(***************************************************************************)
(* Scheduler Trigger (SchedulerManager._scheduleTask, the cron callback)   *)
(***************************************************************************)
\* cron.validate: 5 fields, or 6 with seconds first, each in its range (the
\* fields of the expressions used here: minute, hour, and '*' elsewhere).
cronValidate(expr) ==
    /\ Len(expr) \in {5, 6}
    /\ LET f == IF Len(expr) = 6 THEN Tail(expr) ELSE expr
       IN  /\ Len(expr) = 6 => expr[1] \in {"*", "0", "30", "59"}
           /\ f[1] \in {"*", "0", "30", "59"}
           /\ f[2] \in {"*", "0", "8", "23"}
           /\ \A k \in 3..5 : f[k] = "*"

\* db.getEnabledScheduledPrompts(): the enabled rows.
getEnabledScheduledPrompts(rows) == SelectSeq(rows, LAMBDA p : p.enabled = 1)

scheduleTaskUnvalidated(tasks, promptData) ==
    {p \in tasks : p.id # promptData.id} \cup {promptData}

\* _scheduleTask: the map after scheduling promptData.
_scheduleTask(tasks, promptData) ==
    IF ~cronValidate(promptData.cron_expression)
    THEN tasks
    ELSE {p \in tasks : p.id # promptData.id} \cup {promptData}

RECURSIVE scheduleAll(_, _)
scheduleAll(tasks, prompts) ==
    IF prompts = <<>> THEN tasks
    ELSE scheduleAll(_scheduleTask(tasks, Head(prompts)), Tail(prompts))

\* reload: every task stopped and the map cleared, then the enabled rows
\* scheduled in order.
reload(rows) == scheduleAll({}, getEnabledScheduledPrompts(rows))

\* A reload that neither stops nor forgets the tasks of the previous load.
ReloadKeepsOld ==
    /\ scheduledTasks' = scheduleAll(scheduledTasks,
                                     getEnabledScheduledPrompts(scheduled_prompts))
    /\ UNCHANGED <<chat_context, keywords, processingQueue, lastMessageTime, now, ticks,
                   groupId, isReady, task, built, scheduled_prompts,
                   whitelist, received>>

\* reload() (lines 26-43): every task of the map is stopped, the map is
\* cleared and the enabled rows are scheduled again.
ReloadTasks ==
    /\ scheduledTasks' = reload(scheduled_prompts)
    /\ UNCHANGED <<chat_context, keywords, processingQueue, lastMessageTime, now, ticks,
                   groupId, isReady, task, built, scheduled_prompts,
                   whitelist, received>>

Reload == ReloadTasks /\ UNCHANGED returned

\* The same reload, observed with the table it read.
ReloadSignal ==
    /\ ReloadTasks
    /\ returned' = [call |-> "reload", rows |-> scheduled_prompts]

\* connection.update: the channel opens or closes.
ConnectionUpdate(ready) ==
    /\ isReady' = ready
    /\ UNCHANGED <<chat_context, keywords, processingQueue, lastMessageTime, now, ticks,
                   groupId, task, built, scheduled_prompts, scheduledTasks,
                   whitelist, received, returned>>

channelAssumedReady(status) == FALSE

\* the callback's two checks (lines 61 and 70).
channelNotReady(status) == ~status

destinationMissing(gid) == gid = ""

Fire(i, prompt) ==
    /\ \E p \in scheduledTasks : p.prompt = prompt
    /\ task[i].pc = "idle"
    /\ \A j \in 1..(i - 1) : task[j].pc # "idle"
    /\ LET t0 == [NoTask EXCEPT !.kind = "fire", !.from = SCHEDULER_ID, !.body = prompt]
       IN  task' = [task EXCEPT ![i] = IF destinationMissing(groupId)
                                       THEN finished(t0, "skipped")
                                       ELSE [t0 EXCEPT !.pc = "import"]]
    /\ UNCHANGED <<chat_context, keywords, processingQueue, lastMessageTime, now, ticks,
                   groupId, isReady, built,
                   scheduled_prompts, scheduledTasks,
                   whitelist, received, returned>>

\* await import('./WhatsAppManager.js') resolves (lines 67-81).
ImportDone(i) ==
    /\ task[i].pc = "import"
    /\ LET t == task[i]
           e == processMessage(chat_context, SCHEDULER_ID, t.body, FALSE)
       IN  IF channelNotReady(isReady)
           THEN /\ task' = [task EXCEPT ![i] = finished(t, "skipped")]
                /\ UNCHANGED chat_context
           ELSE /\ task' = [task EXCEPT ![i] = startEngine([t EXCEPT !.pc = "engine"], e)]
                /\ chat_context' = storeUserTurn(chat_context, e)
    /\ UNCHANGED <<keywords, processingQueue, lastMessageTime, now, ticks, groupId,
                   isReady, built,
                   scheduled_prompts, scheduledTasks,
                   whitelist, received, returned>>

(***************************************************************************)
(* Environment: the clock, the connection.                                 *)
(***************************************************************************)
Tick(d) ==
    /\ ticks < MaxTicks
    /\ now' = now + d
    /\ ticks' = ticks + 1
    /\ UNCHANGED <<chat_context, keywords, processingQueue, lastMessageTime, groupId,
                   isReady, task, built,
                   scheduled_prompts, scheduledTasks,
                   whitelist, received, returned>>

(***************************************************************************)
(* Specification Spec: concurrent inbound messages of two senders and      *)
(* schedule firings, over a stable connection.                             *)
(***************************************************************************)
CRON_DAILY == <<"0", "8", "*", "*", "*">>

PromptHi ==
    [id |-> 1, name |-> "morning", cron_expression |-> CRON_DAILY, prompt |-> T_hi,
     enabled |-> 1]

KW_status ==
    [id |-> 1, keyword |-> T_status \o <<",">> \o T_statusHe, response |-> T_ok,
     type |-> "static", enabled |-> 1]

Messages ==
    { [body |-> T_hi, voice |-> FALSE],
      [body |-> T_clear, voice |-> FALSE],
      [body |-> <<>>, voice |-> FALSE] }

Prompts == { T_hi }

Responses ==
    { [calls |-> <<>>, text |-> T_ok],
      [calls |-> <<"get_device_state">>, text |-> <<>>] }

ModelErrors == { T_429 }

ToolErrors == { T_boom }

SendErrors == { <<"WhatsApp client is not ready">> }

Deltas == { CONTEXT_TIMEOUT_MS + 1 }

Init ==
    /\ chat_context = [u \in Users |-> <<>>]
    /\ keywords = <<KW_status>>
    /\ processingQueue = {}
    /\ lastMessageTime = [u \in Senders |-> NoTime]
    /\ now = StartTime
    /\ ticks = 0
    /\ groupId = GROUP
    /\ isReady = TRUE
    /\ task = [i \in TaskIds |-> NoTask]
    /\ built = <<>>
    /\ scheduled_prompts = <<PromptHi>>
    /\ scheduledTasks = reload(<<PromptHi>>)
    /\ whitelist = Senders
    /\ received = [i \in DOMAIN task |-> NoMessage]
    /\ returned = NoValue

Next ==
    \/ \E i \in TaskIds, from \in Senders, m \in Messages : RouteMessage(i, from, m.body, m.voice)
    \/ \E i \in TaskIds : ReactDone(i)
    \/ \E i \in TaskIds, resp \in Responses : ModelResponds(i, resp)
    \/ \E i \in TaskIds, message \in ModelErrors : ModelFails(i, message)
    \/ \E i \in TaskIds : ToolReturns(i)
    \/ \E i \in TaskIds, message \in ToolErrors : ToolThrows(i, message)
    \/ \E i \in TaskIds : SendDone(i)
    \/ \E i \in TaskIds, message \in SendErrors : SendFails(i, message)
    \/ \E i \in TaskIds, ok \in BOOLEAN : ErrorSendDone(i, ok)
    \/ \E i \in TaskIds, prompt \in Prompts : Fire(i, prompt)
    \/ \E i \in TaskIds : ImportDone(i)
    \/ \E d \in Deltas : Tick(d)

Spec == Init /\ [][Next]_vars

(***************************************************************************)
(* Specification SpecHistory: _buildHistory applied to the rows the store  *)
(* operations can leave for one user, starting from an empty table or from *)
(* a full window of HISTORY_LIMIT alternating turns.                       *)
(***************************************************************************)
FullWindow ==
    [k \in 1..HISTORY_LIMIT |->
        IF k % 2 = 1 THEN [role |-> "user", content |-> T_hi]
        ELSE [role |-> "model", content |-> T_ok]]

contentOf(role) ==
    IF role = "user" THEN T_hi ELSE IF role = "model" THEN T_ok ELSE T_boom

rowsAdded(rows) ==
    IF Len(rows) >= HISTORY_LIMIT THEN Len(rows) - HISTORY_LIMIT ELSE Len(rows)

AddChatMessage(userId, role) ==
    /\ rowsAdded(chat_context[userId]) < MaxRows
    /\ chat_context' = addChatMessage(chat_context, userId, role, contentOf(role))
    /\ UNCHANGED <<keywords, processingQueue, lastMessageTime, now, ticks, groupId,
                   isReady, task, built,
                   scheduled_prompts, scheduledTasks,
                   whitelist, received, returned>>

BuildHistory(userId) ==
    /\ built' = _buildHistory(chat_context, userId)
    /\ UNCHANGED <<chat_context, keywords, processingQueue, lastMessageTime, now, ticks,
                   groupId, isReady, task,
                   scheduled_prompts, scheduledTasks,
                   whitelist, received, returned>>

InitHistory ==
    /\ chat_context \in { [u \in Users |-> IF u = "u1" THEN h ELSE <<>>] :
                            h \in {<<>>, FullWindow} }
    /\ keywords = <<KW_status>>
    /\ processingQueue = {}
    /\ lastMessageTime = [u \in Senders |-> NoTime]
    /\ now = StartTime
    /\ ticks = 0
    /\ groupId = GROUP
    /\ isReady = TRUE
    /\ task = [i \in TaskIds |-> NoTask]
    /\ built = <<>>
    /\ scheduled_prompts = <<PromptHi>>
    /\ scheduledTasks = reload(<<PromptHi>>)
    /\ whitelist = Senders
    /\ received = [i \in DOMAIN task |-> NoMessage]
    /\ returned = NoValue

NextHistory ==
    \/ \E role \in Roles : AddChatMessage("u1", role)
    \/ BuildHistory("u1")

SpecHistory == InitHistory /\ [][NextHistory]_vars

(***************************************************************************)
(* Specification SpecEngine: one inbound message of sender u1 over stored  *)
(* turns, answered by a model that may request up to MaxCalls tools per    *)
(* response; the handler list_devices throws "boom", get_device_state      *)
(* returns, "nope" is not registered.                                      *)
(***************************************************************************)
T_lamp == <<"l", "a", "m", "p">>

KW_status_ai ==
    [id |-> 1, keyword |-> T_status, response |-> T_hi, type |-> "ai", enabled |-> 1]

StoredHistories ==
    { <<>>,
      <<[role |-> "user", content |-> T_hi], [role |-> "model", content |-> T_ok]>>,
      <<[role |-> "user", content |-> T_hi]>> }

EngineMessages ==
    { [body |-> T_hi, voice |-> FALSE],
      [body |-> T_lamp, voice |-> FALSE],
      [body |-> T_status, voice |-> FALSE],
      [body |-> T_foo, voice |-> FALSE],
      [body |-> <<>>, voice |-> TRUE] }

RequestedTools == {"get_device_state", "list_devices", "nope"}

ThrowingTools == {"list_devices"}

CallLists == UNION { [1..n -> RequestedTools] : n \in 0..MaxCalls }

EngineResponses == { [calls |-> c, text |-> x] : c \in CallLists, x \in {<<>>, T_ok} }

InitEngine ==
    /\ chat_context \in { [u \in Users |-> IF u = "u1" THEN h ELSE <<>>] :
                            h \in StoredHistories }
    /\ keywords = <<KW_status_ai>>
    /\ processingQueue = {}
    /\ lastMessageTime = [u \in Senders |-> NoTime]
    /\ now = StartTime
    /\ ticks = 0
    /\ groupId = GROUP
    /\ isReady = TRUE
    /\ task = [i \in TaskIds |-> NoTask]
    /\ built = <<>>
    /\ scheduled_prompts = <<PromptHi>>
    /\ scheduledTasks = reload(<<PromptHi>>)
    /\ whitelist = Senders
    /\ received = [i \in DOMAIN task |-> NoMessage]
    /\ returned = NoValue

NextEngine ==
    \/ \E m \in EngineMessages : RouteMessage(1, "u1", m.body, m.voice)
    \/ ReactDone(1)
    \/ \E resp \in EngineResponses : ModelResponds(1, resp)
    \/ \E message \in ModelErrors : ModelFails(1, message)
    \/ /\ EngineAt(1, "awaitTool")
       /\ task[1].eng.calls[task[1].eng.idx] \notin ThrowingTools
       /\ ToolReturns(1)
    \/ /\ EngineAt(1, "awaitTool")
       /\ task[1].eng.calls[task[1].eng.idx] \in ThrowingTools
       /\ ToolThrows(1, T_boom)
    \/ SendDone(1)
    \/ \E message \in SendErrors : SendFails(1, message)
    \/ \E ok \in BOOLEAN : ErrorSendDone(1, ok)

SpecEngine == InitEngine /\ [][NextEngine]_vars

(***************************************************************************)
(* Specification SpecKeyword: one inbound text of sender u1 against the    *)
(* keyword tables an administrator can store.                              *)
(***************************************************************************)
T_statusPadded == <<" ">> \o T_status \o <<" ", "\n">>

KW_slash ==
    [id |-> 1, keyword |-> T_foo \o <<",", " ">> \o T_lamp, response |-> T_ok,
     type |-> "static", enabled |-> 1]

KW_status_second == [KW_status EXCEPT !.id = 2]

KW_status_disabled == [KW_status EXCEPT !.enabled = 0]

KeywordTables ==
    { <<KW_status>>, <<KW_slash>>, <<KW_status_ai, KW_status_second>>,
      <<KW_status_disabled>> }

KeywordBodies ==
    { T_status, T_statusPadded, T_statusHe, T_STATUS, T_hi, T_foo, T_lamp }

KeywordResponses == { [calls |-> <<>>, text |-> T_hi] }

InitKeyword ==
    /\ chat_context = [u \in Users |-> <<>>]
    /\ keywords \in KeywordTables
    /\ processingQueue = {}
    /\ lastMessageTime = [u \in Senders |-> NoTime]
    /\ now = StartTime
    /\ ticks = 0
    /\ groupId = GROUP
    /\ isReady = TRUE
    /\ task = [i \in TaskIds |-> NoTask]
    /\ built = <<>>
    /\ scheduled_prompts = <<PromptHi>>
    /\ scheduledTasks = reload(<<PromptHi>>)
    /\ whitelist = Senders
    /\ received = [i \in DOMAIN task |-> NoMessage]
    /\ returned = NoValue

NextKeyword ==
    \/ \E body \in KeywordBodies : RouteMessage(1, "u1", body, FALSE)
    \/ ReactDone(1)
    \/ \E resp \in KeywordResponses : ModelResponds(1, resp)
    \/ \E message \in ModelErrors : ModelFails(1, message)
    \/ SendDone(1)
    \/ \E message \in SendErrors : SendFails(1, message)
    \/ \E ok \in BOOLEAN : ErrorSendDone(1, ok)

SpecKeyword == InitKeyword /\ [][NextKeyword]_vars

(***************************************************************************)
(* Specification SpecSession: up to MaxArrivals text messages of sender u1 *)
(* spread over time, over a store that may hold turns of an earlier run    *)
(* (lastMessageTime is in memory and starts empty, chat_context persists). *)
(***************************************************************************)
MaxArrivals == 3

ArrivalIds == 1..MaxArrivals

SessionDeltas == { CONTEXT_TIMEOUT_MS \div 2, CONTEXT_TIMEOUT_MS + 1 }

SessionResponses == { [calls |-> <<>>, text |-> T_ok] }

InitSession ==
    /\ chat_context \in { [u \in Users |-> IF u = "u1" THEN h ELSE <<>>] :
                            h \in StoredHistories }
    /\ keywords = <<KW_status>>
    /\ processingQueue = {}
    /\ lastMessageTime = [u \in Senders |-> NoTime]
    /\ now = StartTime
    /\ ticks = 0
    /\ groupId = GROUP
    /\ isReady = TRUE
    /\ task = [i \in ArrivalIds |-> NoTask]
    /\ built = <<>>
    /\ scheduled_prompts = <<PromptHi>>
    /\ scheduledTasks = reload(<<PromptHi>>)
    /\ whitelist = Senders
    /\ received = [i \in DOMAIN task |-> NoMessage]
    /\ returned = NoValue

NextSession ==
    \/ \E i \in ArrivalIds : RouteMessage(i, "u1", T_hi, FALSE)
    \/ \E i \in ArrivalIds : ReactDone(i)
    \/ \E i \in ArrivalIds, resp \in SessionResponses : ModelResponds(i, resp)
    \/ \E i \in ArrivalIds : SendDone(i)
    \/ \E d \in SessionDeltas : Tick(d)

SpecSession == InitSession /\ [][NextSession]_vars

(***************************************************************************)
(* Specification SpecRouter: one inbound message of sender u1, of every    *)
(* kind WhatsAppManager._handleMessage can pass on, with the model, the    *)
(* tools, the channel and the store each free to fail.                     *)
(***************************************************************************)
T_blank == <<" ">>

T_Quota == <<"Q", "u", "o", "t", "a", " ", "e", "x", "c", "e", "e", "d", "e", "d">>

T_dbError == <<"database is locked">>

\* a rule stored with a trailing comma: its last alternative is the empty text.
KW_trailingComma ==
    [id |-> 1, keyword |-> T_status \o <<",">>, response |-> T_ok,
     type |-> "static", enabled |-> 1]

RouterKeywordTables == { <<KW_status>>, <<KW_status_ai>>, <<KW_trailingComma>> }

\* body '' with voice FALSE: a document, or an audio whose download failed;
\* voice TRUE: an audio message with its media (body is always '');
\* body undefined: an image or video without caption.
RouterMessages ==
    { [body |-> T_hi, voice |-> FALSE],
      [body |-> T_status, voice |-> FALSE],
      [body |-> T_help, voice |-> FALSE],
      [body |-> T_foo, voice |-> FALSE],
      [body |-> <<>>, voice |-> FALSE],
      [body |-> T_blank, voice |-> FALSE],
      [body |-> <<>>, voice |-> TRUE],
      [body |-> undefined, voice |-> FALSE] }

RouterResponses ==
    { [calls |-> <<>>, text |-> T_ok],
      [calls |-> <<>>, text |-> <<>>],
      [calls |-> <<"get_device_state">>, text |-> <<>>] }

RouterModelErrors == { T_429, T_Quota, T_boom }

InitRouter ==
    /\ chat_context \in { [u \in Users |-> IF u = "u1" THEN h ELSE <<>>] :
                            h \in StoredHistories }
    /\ keywords \in RouterKeywordTables
    /\ processingQueue = {}
    /\ lastMessageTime \in { [u \in Senders |-> IF u = "u1" THEN l ELSE NoTime] :
                               l \in {NoTime, StartTime} }
    /\ now = StartTime
    /\ ticks = 0
    /\ groupId = GROUP
    /\ isReady = TRUE
    /\ task = [i \in TaskIds |-> NoTask]
    /\ built = <<>>
    /\ scheduled_prompts = <<PromptHi>>
    /\ scheduledTasks = reload(<<PromptHi>>)
    /\ whitelist = Senders
    /\ received = [i \in DOMAIN task |-> NoMessage]
    /\ returned = NoValue

NextRouter ==
    \/ \E m \in RouterMessages : RouteMessage(1, "u1", m.body, m.voice)
    \/ \E m \in RouterMessages : ClearHistoryFails(1, "u1", m.body, m.voice, T_dbError)
    \/ ReactDone(1)
    \/ \E resp \in RouterResponses : ModelResponds(1, resp)
    \/ \E message \in RouterModelErrors : ModelFails(1, message)
    \/ ToolReturns(1)
    \/ \E message \in ToolErrors : ToolThrows(1, message)
    \/ SendDone(1)
    \/ \E message \in SendErrors : SendFails(1, message)
    \/ \E ok \in BOOLEAN : ErrorSendDone(1, ok)
    \/ \E d \in Deltas : Tick(d)

SpecRouter == InitRouter /\ [][NextRouter]_vars

(***************************************************************************)
(* Specification SpecScheduler: the Scheduler Trigger alone. reload reads  *)
(* the stored prompts, registered prompts fire (also while an earlier      *)
(* firing is still running), the channel opens and closes.                 *)
(***************************************************************************)
PromptBadCron ==
    [id |-> 2, name |-> "bad", cron_expression |-> <<"0", "25", "*", "*", "*">>,
     prompt |-> T_status, enabled |-> 1]

PromptLamp ==
    [id |-> 3, name |-> "lamp", cron_expression |-> <<"30", "0", "23", "*", "*", "*">>,
     prompt |-> T_lamp, enabled |-> 1]

PromptDisabled ==
    [id |-> 4, name |-> "off", cron_expression |-> CRON_DAILY, prompt |-> T_foo,
     enabled |-> 0]

PromptTables ==
    { <<PromptHi, PromptBadCron, PromptLamp>>, <<PromptBadCron, PromptDisabled>> }

SchedulerResponses == { [calls |-> <<>>, text |-> T_ok], [calls |-> <<>>, text |-> T_blank] }

InitScheduler ==
    /\ chat_context \in { [u \in Users |-> IF u = SCHEDULER_ID THEN h ELSE <<>>] :
                            h \in StoredHistories }
    /\ keywords = <<KW_status>>
    /\ processingQueue = {}
    /\ lastMessageTime = [u \in Senders |-> NoTime]
    /\ now = StartTime
    /\ ticks = 0
    /\ groupId \in {"", GROUP}
    /\ isReady \in BOOLEAN
    /\ task = [i \in TaskIds |-> NoTask]
    /\ built = <<>>
    /\ scheduled_prompts \in PromptTables
    /\ scheduledTasks = {}
    /\ whitelist = Senders
    /\ received = [i \in DOMAIN task |-> NoMessage]
    /\ returned = NoValue

NextScheduler ==
    \/ Reload
    \/ \E ready \in BOOLEAN : ConnectionUpdate(ready)
    \/ \E i \in TaskIds, k \in 1..Len(scheduled_prompts) : Fire(i, scheduled_prompts[k].prompt)
    \/ \E i \in TaskIds : ImportDone(i)
    \/ \E i \in TaskIds, resp \in SchedulerResponses : ModelResponds(i, resp)
    \/ \E i \in TaskIds, message \in ModelErrors : ModelFails(i, message)
    \/ \E i \in TaskIds : SendDone(i)
    \/ \E i \in TaskIds, message \in SendErrors : SendFails(i, message)

SpecScheduler == InitScheduler /\ [][NextScheduler]_vars

(***************************************************************************)
(* Specification SpecBroadcast: announcements of system events generated   *)
(* over stored turns of sender u1, by a model that answers (possibly with  *)
(* tool requests) or fails.                                                *)
(***************************************************************************)
T_dryer == <<"d", "r", "y", "e", "r">>

T_leak == <<"l", "e", "a", "k">>

BroadcastEvents == {T_dryer, T_leak}

InitBroadcast ==
    /\ chat_context \in { [u \in Users |-> IF u = "u1" THEN h ELSE <<>>] :
                            h \in StoredHistories }
    /\ keywords = <<KW_status>>
    /\ processingQueue = {}
    /\ lastMessageTime = [u \in Senders |-> NoTime]
    /\ now = StartTime
    /\ ticks = 0
    /\ groupId = GROUP
    /\ isReady = TRUE
    /\ task = [i \in TaskIds |-> NoTask]
    /\ built = <<>>
    /\ scheduled_prompts = <<PromptHi>>
    /\ scheduledTasks = reload(<<PromptHi>>)
    /\ whitelist = Senders
    /\ received = [i \in DOMAIN task |-> NoMessage]
    /\ returned = NoValue

NextBroadcast ==
    \/ \E i \in TaskIds, event \in BroadcastEvents : GenerateBroadcast(i, event)
    \/ \E i \in TaskIds, resp \in EngineResponses : BroadcastResponds(i, resp)
    \/ \E i \in TaskIds, message \in ModelErrors : BroadcastFails(i, message)

SpecBroadcast == InitBroadcast /\ [][NextBroadcast]_vars

(***************************************************************************)
(* Specification SpecGate: inbound messages of both senders, direct or in  *)
(* the configured or another group, under each configuration of whitelist  *)
(* and group; admitted ones are routed and answered by the engine.         *)
(***************************************************************************)
OTHER_GROUP == "999@g.us"

Whitelists == { {}, {"u1"} }

GateGroups == {"", GROUP, OTHER_GROUP}

GateResponses == { [calls |-> <<>>, text |-> T_ok] }

InitGate ==
    /\ chat_context = [u \in Users |-> <<>>]
    /\ keywords = <<KW_status>>
    /\ processingQueue = {}
    /\ lastMessageTime = [u \in Senders |-> NoTime]
    /\ now = StartTime
    /\ ticks = 0
    /\ groupId \in {"", GROUP}
    /\ isReady = TRUE
    /\ task = [i \in TaskIds |-> NoTask]
    /\ built = <<>>
    /\ scheduled_prompts = <<PromptHi>>
    /\ scheduledTasks = reload(<<PromptHi>>)
    /\ whitelist \in Whitelists
    /\ received = [i \in DOMAIN task |-> NoMessage]
    /\ returned = NoValue

NextGate ==
    \/ \E i \in TaskIds, senderId \in Senders, gid \in GateGroups :
            HandleMessage(i, senderId, gid, T_hi, FALSE)
    \/ \E i \in TaskIds : ReactDone(i)
    \/ \E i \in TaskIds, resp \in GateResponses : ModelResponds(i, resp)
    \/ \E i \in TaskIds : SendDone(i)

SpecGate == InitGate /\ [][NextGate]_vars

(***************************************************************************)
(* Specification SpecResolver: findActionAndEntity applied to Hebrew texts *)
(* over every table of up to MaxMappings distinct device mappings.         *)
(***************************************************************************)
MaxMappings == 3

N_lamp == <<"מ", "נ", "ו", "ר", "ה">>

N_bigLamp == <<"מ", "נ", "ו", "ר", "ה", " ", "ג", "ד", "ו", "ל", "ה">>

N_ac == <<"מ", "ז", "ג", "ן">>

L_livingRoom == <<"ס", "ל", "ו", "ן">>

L_room == <<"ח", "ד", "ר">>

T_theBigLamp ==
    <<"ת", "ד", "ל", "י", "ק", "י", " ", "א", "ת", " ", "ה", "מ",
      "נ", "ו", "ר", "ה", " ", "ה", "ג", "ד", "ו", "ל", "ה", " ",
      "ב", "ס", "ל", "ו", "ן">>

T_bigLampPlain ==
    <<"ת", "ד", "ל", "י", "ק", "י", " ", "א", "ת", " ", "מ", "נ",
      "ו", "ר", "ה", " ", "ג", "ד", "ו", "ל", "ה", " ", "ב", "ס",
      "ל", "ו", "ן">>

T_lampOff ==
    <<"ת", "כ", "ב", "י", " ", "א", "ת", " ", "ה", "מ", "נ", "ו",
      "ר", "ה", " ", "ב", "ח", "ד", "ר">>

T_bigLampInRoom == N_bigLamp \o <<" ", "ב">> \o L_room

T_acOnly == <<"מ", "ז", "ג", "ן">>

T_shalom == <<"ש", "ל", "ו", "ם">>

LampA == [entity_id |-> "light.a", nickname |-> N_lamp, location |-> L_livingRoom]

LampB == [entity_id |-> "light.b", nickname |-> N_bigLamp, location |-> L_livingRoom]

LampRoom == [entity_id |-> "light.c", nickname |-> N_lamp, location |-> L_room]

AirConditioner == [entity_id |-> "climate.d", nickname |-> N_ac, location |-> <<>>]

MappingRows == {LampA, LampB, LampRoom, AirConditioner}

MappingTables ==
    { m \in UNION { [1..n -> MappingRows] : n \in 0..MaxMappings } :
        \A j, k \in DOMAIN m : j # k => m[j] # m[k] }

ResolverTexts ==
    {T_theBigLamp, T_bigLampPlain, T_bigLampInRoom, T_lampOff, T_acOnly, T_shalom, <<>>}

InitResolver ==
    /\ chat_context = [u \in Users |-> <<>>]
    /\ keywords = <<KW_status>>
    /\ processingQueue = {}
    /\ lastMessageTime = [u \in Senders |-> NoTime]
    /\ now = StartTime
    /\ ticks = 0
    /\ groupId = GROUP
    /\ isReady = TRUE
    /\ task = [i \in TaskIds |-> NoTask]
    /\ built = <<>>
    /\ scheduled_prompts = <<PromptHi>>
    /\ scheduledTasks = reload(<<PromptHi>>)
    /\ whitelist = Senders
    /\ received = [i \in DOMAIN task |-> NoMessage]
    /\ returned = NoValue

NextResolver ==
    \E text \in ResolverTexts, mappings \in MappingTables :
        FindActionAndEntity(text, mappings)

SpecResolver == InitResolver /\ [][NextResolver]_vars

(***************************************************************************)
(* Specification SpecStore: turns stored and histories cleared for the two *)
(* senders, in any order; u1 starts with stored turns.                     *)
(***************************************************************************)
\* db.addChatMessage called directly; it returns nothing.
StoreTurn(userId, role) ==
    /\ rowsAdded(chat_context[userId]) < MaxRows
    /\ chat_context' = addChatMessage(chat_context, userId, role, contentOf(role))
    /\ returned' = [call |-> "addChatMessage"]
    /\ UNCHANGED <<keywords, processingQueue, lastMessageTime, now, ticks, groupId,
                   isReady, task, built, scheduled_prompts, scheduledTasks,
                   whitelist, received>>

\* GeminiManager.clearHistory: db.clearChatHistory, whose count is logged.
ClearHistory(userId) ==
    /\ chat_context' = clearChatHistory(chat_context, userId)
    /\ returned' = [call |-> "clearChatHistory", userId |-> userId,
                    value |-> changes(chat_context, userId)]
    /\ UNCHANGED <<keywords, processingQueue, lastMessageTime, now, ticks, groupId,
                   isReady, task, built, scheduled_prompts, scheduledTasks,
                   whitelist, received>>

InitStore ==
    /\ chat_context \in
          { [u \in Users |-> IF u = "u1" THEN h1 ELSE IF u = "u2" THEN h2 ELSE <<>>] :
              h1 \in {FullWindow, <<[role |-> "user", content |-> T_hi]>>},
              h2 \in StoredHistories }
    /\ keywords = <<KW_status>>
    /\ processingQueue = {}
    /\ lastMessageTime = [u \in Senders |-> NoTime]
    /\ now = StartTime
    /\ ticks = 0
    /\ groupId = GROUP
    /\ isReady = TRUE
    /\ task = [i \in TaskIds |-> NoTask]
    /\ built = <<>>
    /\ scheduled_prompts = <<PromptHi>>
    /\ scheduledTasks = reload(<<PromptHi>>)
    /\ whitelist = Senders
    /\ received = [i \in DOMAIN task |-> NoMessage]
    /\ returned = NoValue

NextStore ==
    \/ \E userId \in Senders, role \in {"user", "model"} : StoreTurn(userId, role)
    \/ \E userId \in Senders : ClearHistory(userId)

SpecStore == InitStore /\ [][NextStore]_vars

(***************************************************************************)
(* Specification SpecReload: the administrator edits the table of          *)
(* scheduled prompts between reloads while registered prompts fire.        *)
(***************************************************************************)
PromptHiEdited == [PromptHi EXCEPT !.prompt = T_status]

ReloadTables ==
    PromptTables \cup { <<PromptHiEdited, PromptLamp>>, <<>> }

\* The dashboard creates, updates, toggles or deletes scheduled prompts: the
\* table becomes rows; nothing is registered until the next reload.
EditScheduledPrompts(rows) ==
    /\ rows # scheduled_prompts
    /\ scheduled_prompts' = rows
    /\ UNCHANGED <<chat_context, keywords, processingQueue, lastMessageTime, now, ticks,
                   groupId, isReady, task, built, scheduledTasks,
                   whitelist, received, returned>>

InitReload ==
    /\ chat_context = [u \in Users |-> <<>>]
    /\ keywords = <<KW_status>>
    /\ processingQueue = {}
    /\ lastMessageTime = [u \in Senders |-> NoTime]
    /\ now = StartTime
    /\ ticks = 0
    /\ groupId = GROUP
    /\ isReady = TRUE
    /\ task = [i \in TaskIds |-> NoTask]
    /\ built = <<>>
    /\ scheduled_prompts \in ReloadTables
    /\ scheduledTasks = {}
    /\ whitelist = Senders
    /\ received = [i \in DOMAIN task |-> NoMessage]
    /\ returned = NoValue

NextReload ==
    \/ ReloadSignal
    \/ \E rows \in ReloadTables : EditScheduledPrompts(rows)
    \/ \E i \in TaskIds, p \in scheduledTasks : Fire(i, p.prompt)
    \/ \E i \in TaskIds : ImportDone(i)
    \/ \E i \in TaskIds, resp \in SchedulerResponses : ModelResponds(i, resp)
    \/ \E i \in TaskIds : SendDone(i)

SpecReload == InitReload /\ [][NextReload]_vars

(***************************************************************************)
(* Specification SpecAdmin: the administrator updates keyword rules, from  *)
(* the edit form (no enabled field) or the toggle (enabled sent), and one  *)
(* inbound text of sender u1 is matched against the table.                 *)
(***************************************************************************)
KW_slash_second == [KW_slash EXCEPT !.id = 2]

AdminTables == { <<KW_status_disabled>>, <<KW_status_disabled, KW_slash_second>> }

KeywordUpdates ==
    [keyword : {T_status, KW_slash.keyword, <<>>}, response : {T_ok},
     enabled : {"true", "false", Undefined}, type : {"static", "ai", Undefined}]

InitAdmin ==
    /\ chat_context = [u \in Users |-> <<>>]
    /\ keywords \in AdminTables
    /\ processingQueue = {}
    /\ lastMessageTime = [u \in Senders |-> NoTime]
    /\ now = StartTime
    /\ ticks = 0
    /\ groupId = GROUP
    /\ isReady = TRUE
    /\ task = [i \in TaskIds |-> NoTask]
    /\ built = <<>>
    /\ scheduled_prompts = <<PromptHi>>
    /\ scheduledTasks = reload(<<PromptHi>>)
    /\ whitelist = Senders
    /\ received = [i \in DOMAIN task |-> NoMessage]
    /\ returned = NoValue

NextAdmin ==
    \/ \E body \in KeywordUpdates : PutKeyword(KW_status_disabled.id, body)
    \/ RouteMessage(1, "u1", T_status, FALSE)
    \/ ReactDone(1)
    \/ \E resp \in KeywordResponses : ModelResponds(1, resp)
    \/ SendDone(1)

SpecAdmin == InitAdmin /\ [][NextAdmin]_vars

(***************************************************************************)
(* Properties.                                                             *)
(***************************************************************************)
InFlight(i) ==
    task[i].kind = "route" /\ task[i].pc \in {"react", "engine", "send", "sendErr"}

Arrives(i) == task[i].pc = "idle" /\ task'[i].kind = "route"

EngineActive(i) ==
    task[i].pc = "engine" /\ task[i].eng.pc \in {"awaitModel", "awaitTool"}

Untouched(i) ==
    /\ task[i].engineCalls = 0
    /\ task[i].eng = NoEngine
    /\ task[i].out = <<>>
    /\ ~task[i].reacted
    /\ task[i].path = "none"

\* C1: per sender at most one routeMessage invocation is between adding the
\* sender to processingQueue and removing it; a message arriving while its
\* sender is in the set is dropped, runs no handler and is never processed later.
C1_SingleFlightPerSender ==
    /\ [](\A i, j \in TaskIds :
            (InFlight(i) /\ InFlight(j) /\ task[i].from = task[j].from) => i = j)
    /\ [](\A i \in TaskIds : InFlight(i) => task[i].from \in processingQueue)
    /\ [](\A i \in TaskIds : task[i].pc = "dropped" => Untouched(i))
    /\ [][\A i \in TaskIds :
            (Arrives(i) /\ task'[i].from \in processingQueue) => task'[i].pc = "dropped"]_vars
    /\ [][\A i \in TaskIds : task[i].pc = "dropped" => task'[i] = task[i]]_vars

C1_Witness ==
    \E i, j \in TaskIds :
        /\ task[i].pc = "engine" /\ task[i].kind = "route"
        /\ task[j].pc = "dropped" /\ task[j].from = task[i].from

\* C2 as stated: over the Router and the Scheduler Trigger, at most one engine
\* process call per identity ('system_scheduler' included) is active at a time.
C2_OneEngineCallPerIdentity ==
    \A i, j \in TaskIds :
        (EngineActive(i) /\ EngineActive(j) /\ task[i].eng.userId = task[j].eng.userId)
            => i = j

\* C2 amended: at most one engine process call started by the Router is active
\* per sender at a time; schedule firings take no lock.
C2_OneRouterEngineCallPerSender ==
    \A i, j \in TaskIds :
        (/\ EngineActive(i) /\ EngineActive(j)
         /\ task[i].kind = "route" /\ task[j].kind = "route"
         /\ task[i].eng.userId = task[j].eng.userId)
            => i = j

C2_Witness ==
    \E i, j \in TaskIds :
        /\ i # j
        /\ EngineActive(i) /\ task[i].kind = "route"
        /\ task[j].kind = "route" /\ task[j].from = task[i].from
        /\ task[j].result = "dropped"
        /\ task[i].eng.pc = "awaitTool"

\* C3 as stated: a routeMessage call for a sender with a message in flight
\* changes neither the stored history, nor lastMessageTime, nor the in-flight
\* set, and sends nothing.
C3_DroppedCallHasNoSideEffect ==
    [][\A i \in TaskIds :
        (Arrives(i) /\ task'[i].pc = "dropped") =>
            /\ chat_context' = chat_context
            /\ lastMessageTime' = lastMessageTime
            /\ processingQueue' = processingQueue
            /\ Untouched(i)']_vars

\* C4: an invocation that added its sender to processingQueue has removed it
\* when it completes (success, failure or ignored type), so the sender's next
\* message is accepted; a dropped invocation leaves the marker in place.
C4_MarkerRemovedOnCompletion ==
    /\ [](\A s \in Senders :
            s \in processingQueue => \E i \in TaskIds : InFlight(i) /\ task[i].from = s)
    /\ [][\A i \in TaskIds :
            (Arrives(i) /\ ~\E j \in TaskIds : InFlight(j) /\ task[j].from = task'[i].from)
                => task'[i].pc # "dropped"]_vars
    /\ [][\A i \in TaskIds :
            (Arrives(i) /\ task'[i].pc = "dropped") =>
                /\ processingQueue' = processingQueue
                /\ task'[i].from \in processingQueue']_vars

C4_Witness ==
    \E i, j \in TaskIds :
        /\ task[i].kind = "route" /\ task[i].pc = "done" /\ task[i].result = "failed"
        /\ InFlight(j) /\ task[j].from = task[i].from

Alternates(history) ==
    /\ \A k \in 1..Len(history) : history[k].role \in {"user", "model"}
    /\ history # <<>> => history[1].role = "user"
    /\ \A k \in 1..(Len(history) - 1) : history[k].role # history[k + 1].role

\* C5: the history _buildHistory returns never begins with a 'model' turn and
\* never has two adjacent turns of the same role, whatever rows are stored.
C5_BuiltHistoryAlternates == Alternates(built)

C5_Witness ==
    /\ Len(chat_context["u1"]) > HISTORY_LIMIT
    /\ getChatHistory(chat_context, "u1", HISTORY_LIMIT)[1].role = "model"
    /\ chat_context["u1"][Len(chat_context["u1"])].role =
           chat_context["u1"][Len(chat_context["u1"]) - 1].role
    /\ built = _buildHistory(chat_context, "u1")
    /\ Len(built) = HISTORY_LIMIT - 2

\* C6: the tool loop performs at most maxIterations (5) iterations, so at most
\* 5 batches of tool results follow the first model request, and the response
\* to the 5th batch ends the loop even when it requests tools again.
C6_ToolLoopBounded ==
    /\ [](\A i \in TaskIds :
            /\ task[i].eng.iterations <= maxIterations
            /\ task[i].eng.requests <= maxIterations + 1)
    /\ [][\A i \in TaskIds :
            (/\ EngineAt(i, "awaitModel")
             /\ task[i].eng.requests = maxIterations + 1
             /\ task'[i] # task[i])
                => task'[i].eng.pc \in {"returned", "failed"}]_vars

C6_Witness ==
    \E i \in TaskIds :
        /\ task[i].eng.pc = "returned"
        /\ task[i].eng.requests = maxIterations + 1
        /\ task[i].eng.calls # <<>>

BoomResult == [kind |-> "error", message |-> T_boom]

\* C7: a handler that throws "boom" does not abort the loop or the process
\* call: the batch sent to the model next carries {error: "boom"} for that
\* call and one result for every other call of the iteration, and a later
\* model response without tool calls is returned as the final text.
C7_ToolErrorAbsorbed ==
    /\ [](\A i \in TaskIds :
            (task[i].eng.pc = "awaitModel" /\ task[i].eng.requests > 1) =>
                /\ Len(task[i].eng.lastBatch) = Len(task[i].eng.calls)
                /\ \A k \in 1..Len(task[i].eng.calls) :
                     /\ task[i].eng.lastBatch[k].name = task[i].eng.calls[k]
                     /\ task[i].eng.calls[k] \in ThrowingTools
                            => task[i].eng.lastBatch[k].response = BoomResult)
    /\ [][\A i \in TaskIds :
            (/\ EngineAt(i, "awaitTool")
             /\ task[i].eng.calls[task[i].eng.idx] \in ThrowingTools
             /\ task'[i] # task[i])
                => /\ task'[i].pc = "engine"
                   /\ task'[i].error = <<>>
                   /\ task'[i].eng.pc \in {"awaitTool", "awaitModel"}]_vars
    /\ [][\A i \in TaskIds :
            (/\ EngineAt(i, "awaitModel")
             /\ task'[i] # task[i]
             /\ task'[i].eng.pc # "failed"
             /\ task'[i].eng.calls = <<>>)
                => /\ task'[i].eng.pc = "returned"
                   /\ task'[i].ret = task'[i].eng.text
                   /\ task'[i].error = <<>>]_vars

C7_Witness ==
    \E i \in TaskIds :
        /\ task[i].pc = "done" /\ task[i].result = "ok"
        /\ task[i].ret = T_ok
        /\ Len(task[i].eng.lastBatch) = 2
        /\ task[i].eng.lastBatch[1].response = BoomResult
        /\ task[i].eng.lastBatch[2].response = handlerReturned

LastRow(rows) == rows[Len(rows)]

\* C8: the user's input turn is stored before the first model request; when a
\* model request fails (the first or one of the tool loop) the call fails with
\* that error, writes no 'model' turn and leaves the user's turn in the store.
C8_ModelFailureKeepsUserTurn ==
    /\ [][\A i \in TaskIds :
            (task[i].eng.pc = "none" /\ task'[i].eng.pc = "awaitModel") =>
                /\ chat_context'[task'[i].eng.userId] # <<>>
                /\ LastRow(chat_context'[task'[i].eng.userId]) =
                       [role |-> "user", content |-> task'[i].eng.input]]_vars
    /\ [][\A i \in TaskIds :
            (EngineAt(i, "awaitModel") /\ task'[i].eng.pc = "failed") =>
                /\ chat_context' = chat_context
                /\ task'[i].error \in ModelErrors
                /\ task'[i].pc = "sendErr"
                /\ task'[i].ret = <<>>]_vars
    /\ [](\A i \in TaskIds :
            task[i].eng.pc = "failed" =>
                /\ chat_context[task[i].eng.userId] # <<>>
                /\ LastRow(chat_context[task[i].eng.userId]) =
                       [role |-> "user", content |-> task[i].eng.input])

C8_Witness ==
    \E i \in TaskIds :
        /\ task[i].eng.pc = "failed"
        /\ task[i].eng.requests > 1
        /\ task[i].error = T_429
        /\ LastRow(chat_context["u1"]) = [role |-> "user", content |-> task[i].eng.input]
        /\ Len(chat_context["u1"]) = 3

Front(rows) == SubSeq(rows, 1, Len(rows) - 1)

\* the history _buildHistory yields on the rows stored before the user turn
\* that the starting call has just appended.
BuiltBeforeStart(ctx, userId) == _buildHistory([ctx EXCEPT ![userId] = Front(@)], userId)

StartsTextCall(i) ==
    task[i].eng.pc = "none" /\ task'[i].eng.pc = "awaitModel" /\ task'[i].eng.entry = "text"

\* C9: processMessage on device-related text without keepHistory starts the chat
\* with an empty history whatever is stored; with keepHistory (the AI-keyword
\* path) or text that is not device-related it starts it with the built history.
C9_DeviceTextGetsEmptyHistory ==
    [][\A i \in TaskIds :
        StartsTextCall(i) =>
            LET e == task'[i].eng
                keepHistory == task'[i].path = "kwAI"
                deviceRelated == \E w \in {T_lamp, T_status} : includes(toLowerCase(e.input), w)
            IN  IF deviceRelated /\ ~keepHistory
                THEN e.history = <<>>
                ELSE e.history = BuiltBeforeStart(chat_context', e.userId)]_vars

C9_Witness ==
    \E i \in TaskIds :
        /\ EngineActive(i)
        /\ task[i].path = "text"
        /\ task[i].eng.input = T_lamp
        /\ task[i].eng.history = <<>>
        /\ Len(chat_context["u1"]) = 3

C9_WitnessKeepHistory ==
    \E i \in TaskIds :
        /\ EngineActive(i)
        /\ task[i].path = "kwAI"
        /\ includes(task[i].eng.input, T_status)
        /\ Len(task[i].eng.history) = 2

\* the alternatives of a pattern: its maximal comma-free segments, trimmed.
IsSegment(p, a, b) ==
    /\ a <= b + 1
    /\ a = 1 \/ p[a - 1] = ","
    /\ b = Len(p) \/ p[b + 1] = ","
    /\ \A k \in a..b : p[k] # ","

AlternativesOf(p) ==
    { trim(SubSeq(p, a, b)) : <<a, b>> \in { ab \in (1..(Len(p) + 1)) \X (0..Len(p)) :
                                                IsSegment(p, ab[1], ab[2]) } }

StaticHit(i, k) ==
    /\ task[i].kind = "route" /\ task[i].pc \notin {"idle", "dropped"}
    /\ keywords[k].enabled = 1 /\ keywords[k].type = "static"
    /\ trim(task[i].body) \in AlternativesOf(keywords[k].keyword)

RepliesWithPayload(i, k) ==
    /\ task[i].path = "kwStatic"
    /\ task[i].engineCalls = 0 /\ task[i].eng = NoEngine
    /\ chat_context = [u \in Users |-> <<>>]
    /\ task[i].pc # "react" =>
          /\ task[i].ret = keywords[k].response
          /\ task[i].out # <<>> => task[i].out[1].text = keywords[k].response
          /\ task[i].pc = "send" => task[i].sending = keywords[k].response

ProcessedTimes(from) ==
    { task[j].at : j \in { k \in DOMAIN task : /\ task[k].kind = "route"
                                                /\ task[k].from = from
                                                /\ task[k].result # "dropped" } }

LatestOf(times) == CHOOSE t \in times : \A u \in times : u <= t

\* C11: an accepted text message leaves the sender's history empty at dispatch
\* when it arrives more than CONTEXT_TIMEOUT_MS after the sender's last
\* processed message, and leaves it as it was when it arrives within that
\* time or is the sender's first message.
C11_HistoryClearedAfterInactivity ==
    [][\A i \in DOMAIN task :
        (Arrives(i) /\ task'[i].pc = "react") =>
            LET from == task'[i].from
                prev == ProcessedTimes(from)
            IN  IF prev # {} /\ (now - LatestOf(prev)) > CONTEXT_TIMEOUT_MS
                THEN chat_context'[from] = <<>>
                ELSE chat_context'[from] = chat_context[from]]_vars

\* an invocation that passed the in-flight check and reached the classification.
Dispatched(i) ==
    /\ task[i].kind = "route"
    /\ task[i].pc \notin {"idle", "dropped"}
    /\ task[i].result # "rejected"

IsCommandText(b) == b # undefined /\ Len(b) > 0 /\ b[1] = "/"

HasText(b) == b # undefined /\ trim(b) # <<>>

MatchingRules(b) ==
    { k \in 1..Len(keywords) : /\ b # undefined
                                /\ keywords[k].enabled = 1
                                /\ trim(b) \in AlternativesOf(keywords[k].keyword) }

\* C12 as stated: the handler is chosen in the order command, keyword rule,
\* voice, free text; a voice message whose text matches a rule takes the
\* keyword path.
C12_KeywordBeforeVoice ==
    \A i \in DOMAIN task : Dispatched(i) =>
        LET b == task[i].body
            command == IsCommandText(b)
            keyword == MatchingRules(b) # {}
        IN  /\ command => task[i].path = "command"
            /\ (~command /\ keyword) => task[i].path \in {"kwAI", "kwStatic"}
            /\ (~command /\ ~keyword /\ task[i].voice) => task[i].path = "voice"
            /\ (~command /\ ~keyword /\ ~task[i].voice /\ HasText(b))
                    => task[i].path = "text"

\* C12 amended: the order is command, voice, then non-empty text, which takes
\* the keyword path of the first enabled rule listing it and the engine
\* otherwise; one handler is chosen and it calls the engine at most once,
\* through the entry point of its kind.
C12_VoiceBeforeKeyword ==
    \A i \in DOMAIN task : Dispatched(i) =>
        LET b == task[i].body
            command == IsCommandText(b)
            voice == task[i].voice
            rules == MatchingRules(b)
            first == CHOOSE k \in rules : \A j \in rules : k <= j
        IN  /\ command => task[i].path = "command"
            /\ (~command /\ voice) => task[i].path = "voice"
            /\ (~command /\ ~voice /\ HasText(b) /\ rules # {}) =>
                    /\ task[i].path = IF keywords[first].type = "ai" THEN "kwAI" ELSE "kwStatic"
                    /\ task[i].kw = keywords[first]
            /\ (~command /\ ~voice /\ HasText(b) /\ rules = {}) => task[i].path = "text"
            /\ task[i].engineCalls <= 1
            /\ task[i].path = "kwStatic" => task[i].engineCalls = 0
            /\ task[i].path = "voice" => task[i].eng.entry \in {"none", "voice"}
            /\ task[i].path \in {"command", "kwAI", "text"}
                    => task[i].eng.entry \in {"none", "text"}

C12_Witness ==
    /\ keywords = <<KW_trailingComma>>
    /\ task[1].voice /\ task[1].body = <<>>
    /\ MatchingRules(task[1].body) = {1}
    /\ task[1].path = "voice"
    /\ EngineActive(1) /\ task[1].eng.entry = "voice"

\* neither a command, nor voice input with media, nor non-empty text.
Unsupported(t) == ~IsCommandText(t.body) /\ ~t.voice /\ ~HasText(t.body)

\* C13: a message that is neither a command, nor voice with media, nor
\* non-empty text (its text empty, blank or absent) is ignored: the invocation
\* ends at once with no handler, no engine call, no turn written and nothing
\* sent, an error text included.
C13_UnsupportedMessageIgnored ==
    /\ [](\A i \in DOMAIN task :
            (Dispatched(i) /\ Unsupported(task[i])) =>
                /\ task[i].pc = "done" /\ task[i].result = "ignored"
                /\ task[i].engineCalls = 0 /\ task[i].eng = NoEngine
                /\ task[i].sending = <<>> /\ task[i].out = <<>>
                /\ ~task[i].reacted)
    /\ [][\A i \in DOMAIN task :
            (Arrives(i) /\ Dispatched(i)' /\ Unsupported(task'[i])) =>
                chat_context'[task'[i].from] \in {chat_context[task'[i].from], <<>>}]_vars

\* the step in which the handler of invocation i returns to routeMessage.
HandlerReturnsStep(i) ==
    /\ task[i].pc \in {"idle", "react", "engine"}
    /\ task'[i].kind = "route"
    /\ task'[i].pc \in {"send", "done"}
    /\ task'[i].error = <<>>
    /\ task'[i].result \notin {"dropped", "ignored", "rejected"}

\* what the handler returned: the rule's payload, the engine's text, or the
\* command's reply.
ReturnedText(t) ==
    IF t.path = "kwStatic" THEN t.kw.response
    ELSE IF t.eng.pc = "returned" THEN t.eng.text
    ELSE t.ret

\* C14 as stated: whenever a handler returns without error, the returned text
\* is sent to the destination chat, an empty text included.
C14_ReturnedTextAlwaysSent ==
    [][\A i \in DOMAIN task :
        HandlerReturnsStep(i) =>
            /\ task'[i].pc = "send"
            /\ task'[i].sending = ReturnedText(task'[i])]_vars

\* C14 amended: a returned text that is not empty is sent, once and unchanged,
\* to the message's chat; when the returned text is empty nothing is sent and
\* the invocation completes.
C14_NonEmptyReturnedTextSent ==
    /\ [][\A i \in DOMAIN task :
            HandlerReturnsStep(i) =>
                /\ task'[i].out = <<>>
                /\ IF ReturnedText(task'[i]) # <<>>
                   THEN /\ task'[i].pc = "send"
                        /\ task'[i].sending = ReturnedText(task'[i])
                   ELSE /\ task'[i].pc = "done" /\ task'[i].result = "ok"
                        /\ task'[i].sending = <<>>]_vars
    /\ [][\A i \in DOMAIN task :
            (task[i].kind = "route" /\ task[i].pc = "send" /\ task'[i] # task[i]) =>
                /\ Len(task'[i].out) = 1
                /\ task'[i].out[1].to = task[i].from
                /\ task'[i].out[1].text = ReturnedText(task[i])
                /\ IF task'[i].out[1].ok
                   THEN task'[i].pc = "done" /\ task'[i].result = "ok"
                   ELSE task'[i].pc = "sendErr"]_vars
    /\ [](\A i \in DOMAIN task :
            (task[i].kind = "route" /\ task[i].result = "ok") =>
                IF ReturnedText(task[i]) = <<>> THEN task[i].out = <<>>
                ELSE task[i].out = <<[to |-> task[i].from, text |-> ReturnedText(task[i]),
                                      ok |-> TRUE]>>)

C14_Witness ==
    /\ task[1].path = "text" /\ task[1].result = "ok"
    /\ task[1].eng.pc = "returned" /\ task[1].eng.text = T_ok
    /\ task[1].eng.iterations = 1
    /\ task[1].out = <<[to |-> "u1", text |-> T_ok, ok |-> TRUE]>>

C14_WitnessEmptyText ==
    /\ task[1].path = "text" /\ task[1].result = "ok"
    /\ task[1].eng.pc = "returned" /\ task[1].eng.text = <<>>
    /\ task[1].out = <<>>

\* the step in which the try block of invocation i throws (line 75).
HandlingFailsStep(i) ==
    /\ task[i].kind \in {"idle", "route"} /\ task[i].error = <<>>
    /\ task'[i].kind = "route" /\ task'[i].error # <<>>
    /\ task'[i].result # "rejected"

ErrorTextFor(message) ==
    IF \/ \E k \in 1..Len(message) :
             /\ k + 2 <= Len(message)
             /\ message[k] = "4" /\ message[k + 1] = "2" /\ message[k + 2] = "9"
       \/ \E k \in 1..Len(message) :
             /\ k + 4 <= Len(message)
             /\ message[k] \in {"q", "Q"} /\ message[k + 1] \in {"u", "U"}
             /\ message[k + 2] \in {"o", "O"} /\ message[k + 3] \in {"t", "T"}
             /\ message[k + 4] \in {"a", "A"}
    THEN QuotaText
    ELSE GenericText

\* C15: when the handling of a message fails (classification, handler, engine
\* or the send of the reply), the Router sends exactly one text to the chat,
\* the quota text when the error message contains '429' or 'quota' in any
\* case and the generic text otherwise; it does not call the engine again.
C15_FailureSendsOneFixedText ==
    /\ [][\A i \in DOMAIN task :
            HandlingFailsStep(i) =>
                /\ task'[i].pc = "sendErr"
                /\ task'[i].sending = ErrorTextFor(task'[i].error)
                /\ task'[i].engineCalls = task[i].engineCalls]_vars
    /\ [][\A i \in DOMAIN task :
            (task[i].pc = "sendErr" /\ task'[i] # task[i]) =>
                /\ task'[i].pc = "done" /\ task'[i].result = "failed"
                /\ Len(task'[i].out) = Len(task[i].out) + 1
                /\ SubSeq(task'[i].out, 1, Len(task[i].out)) = task[i].out
                /\ LET sent == task'[i].out[Len(task'[i].out)]
                   IN  sent.to = task[i].from /\ sent.text = ErrorTextFor(task[i].error)
                /\ task'[i].engineCalls = task[i].engineCalls]_vars
    /\ [](\A i \in DOMAIN task :
            /\ task[i].kind = "route" => task[i].engineCalls <= 1
            /\ (task[i].kind = "route" /\ task[i].result = "failed") =>
                  Cardinality({ k \in 1..Len(task[i].out) :
                                  task[i].out[k].text \in {QuotaText, GenericText} }) = 1)

C15_Witness ==
    /\ task[1].result = "failed"
    /\ task[1].error = T_Quota
    /\ task[1].engineCalls = 1
    /\ task[1].out = <<[to |-> "u1", text |-> QuotaText, ok |-> TRUE]>>

\* C16: routeMessage never completes with an error: whatever fails during an
\* invocation (the inactivity reset included), it attempts to send an error
\* text to the chat, and a failure of that send is absorbed.
C16_NoErrorEscapesRouteMessage ==
    \A i \in DOMAIN task :
        (task[i].kind = "route" /\ task[i].error # <<>>) =>
            \/ task[i].pc = "sendErr" /\ task[i].sending \in {QuotaText, GenericText}
            \/ /\ task[i].pc = "done" /\ task[i].result = "failed"
               /\ task[i].out # <<>>
               /\ task[i].out[Len(task[i].out)].text \in {QuotaText, GenericText}

\* C17: a process call appends the user's input turn when it starts, nothing
\* while its tools run, and, in the step in which it returns, one 'model' turn
\* whose text is the text returned to the caller.
C17_SuccessfulCallStoresBothTurns ==
    /\ [][\A i \in DOMAIN task :
            (task[i].eng.pc = "none" /\ task'[i].eng.pc = "awaitModel") =>
                chat_context' =
                    [chat_context EXCEPT ![task'[i].eng.userId] =
                        Append(@, [role |-> "user", content |-> task'[i].eng.input])]]_vars
    /\ [][\A i \in DOMAIN task :
            (EngineActive(i) /\ EngineActive(i)') => chat_context' = chat_context]_vars
    /\ [][\A i \in DOMAIN task :
            (EngineActive(i) /\ task'[i].eng.pc = "returned") =>
                /\ chat_context' =
                       [chat_context EXCEPT ![task[i].eng.userId] =
                           Append(@, [role |-> "model", content |-> task'[i].eng.text])]
                /\ task'[i].ret = task'[i].eng.text]_vars
    /\ [](\A u \in Users : \A k \in 1..Len(chat_context[u]) :
            chat_context[u][k].role \in {"user", "model"})

C17_Witness ==
    /\ task[1].eng.pc = "returned" /\ task[1].eng.entry = "text"
    /\ task[1].eng.iterations = 2 /\ task[1].eng.auditTotal >= 2
    /\ task[1].ret = T_ok
    /\ chat_context["u1"] = <<[role |-> "user", content |-> T_hi],
                               [role |-> "model", content |-> T_ok]>>

Fires(i) == task[i].pc = "idle" /\ task'[i].kind = "fire"

Skipped(t) ==
    /\ t.kind = "fire" /\ t.pc = "done" /\ t.result = "skipped"
    /\ t.engineCalls = 0 /\ t.eng = NoEngine
    /\ t.sending = <<>> /\ t.out = <<>>

\* C18: a firing that finds no group id configured, or the channel not ready
\* when it checks it, ends skipped: no engine call, no turn stored, nothing
\* sent; a skipped firing never runs later.
C18_FiringSkippedWhenNotReady ==
    /\ [][\A i \in DOMAIN task :
            (Fires(i) /\ groupId = "") =>
                Skipped(task'[i]) /\ chat_context' = chat_context]_vars
    /\ [][\A i \in DOMAIN task :
            (task[i].pc = "import" /\ task'[i] # task[i] /\ ~isReady) =>
                Skipped(task'[i]) /\ chat_context' = chat_context]_vars
    /\ [][\A i \in DOMAIN task :
            task[i].result = "skipped" => task'[i] = task[i]]_vars
    /\ [](\A i \in DOMAIN task :
            (task[i].kind = "fire" /\ task[i].engineCalls > 0) => groupId # "")

C18_Witness ==
    /\ groupId = GROUP /\ isReady
    /\ Skipped(task[1])
    /\ task[2].kind = "fire" /\ task[2].result = "sent" /\ task[2].body = task[1].body

WellFormed(expr) == expr \in {CRON_DAILY, PromptLamp.cron_expression}

Loadable(rows) ==
    { rows[k] : k \in { j \in 1..Len(rows) : /\ rows[j].enabled = 1
                                              /\ WellFormed(rows[j].cron_expression) } }

\* C20: a stored prompt whose schedule expression fails validation is never in
\* the task map and never fires, while a load registers every other enabled
\* prompt of the table.
C20_InvalidScheduleNeverRegistered ==
    /\ [](\A p \in scheduledTasks : WellFormed(p.cron_expression))
    /\ [][scheduledTasks' # scheduledTasks
            => scheduledTasks' = Loadable(scheduled_prompts)]_vars
    /\ [](\A i \in DOMAIN task :
            task[i].kind = "fire" =>
                \E k \in 1..Len(scheduled_prompts) :
                    /\ scheduled_prompts[k].prompt = task[i].body
                    /\ WellFormed(scheduled_prompts[k].cron_expression))

C20_Witness ==
    /\ scheduled_prompts = <<PromptHi, PromptBadCron, PromptLamp>>
    /\ scheduledTasks = {PromptHi, PromptLamp}
    /\ task[1].kind = "fire" /\ task[1].body = T_lamp /\ task[1].result = "sent"

\* C21: generateBroadcastMessage issues exactly one model request, with no
\* conversation history, runs no tool (no iteration, no audit row, no handler
\* awaited) and leaves the stored turns as they are; when the request fails
\* the call still returns, and what it returns is the fixed fallback words
\* followed by the event name.
C21_BroadcastIsOneHistoryFreeRequest ==
    /\ [](\A i \in DOMAIN task :
            task[i].kind = "broadcast" =>
                /\ task[i].eng.requests = 1
                /\ task[i].eng.history = <<>>
                /\ task[i].eng.iterations = 0
                /\ task[i].eng.auditTotal = 0
                /\ task[i].eng.pc \in {"awaitModel", "returned", "failed"}
                /\ task[i].pc = "done" => task[i].result = "ok"
                /\ (task[i].pc = "done" /\ task[i].eng.pc = "failed")
                        => task[i].ret = <<FallbackPrefix>> \o task[i].body)
    /\ [][chat_context' = chat_context]_vars

C21_Witness ==
    /\ chat_context["u1"] # <<>>
    /\ task[1].kind = "broadcast" /\ task[1].pc = "done"
    /\ task[1].eng.pc = "failed" /\ task[1].ret = <<FallbackPrefix>> \o T_dryer
    /\ task[2].kind = "broadcast" /\ task[2].pc = "done"
    /\ task[2].eng.pc = "returned" /\ task[2].eng.calls # <<>>

AdmittedBySpec(m) ==
    \/ groupId # "" /\ m.groupId = groupId
    \/ m.senderId \in whitelist

\* C22: the router callback runs only for an allowed inbound message, one
\* sent in the configured group or by a sender on the whitelist; every other
\* inbound message is ignored, in particular every message from outside the
\* configured group when the whitelist is empty.
C22_OnlyAllowedMessagesReachRouter ==
    \A i \in DOMAIN task :
        /\ task[i].kind = "route"
              => /\ received[i] # NoMessage
                 /\ task[i].from = received[i].senderId
                 /\ AdmittedBySpec(received[i])
        /\ (received[i] # NoMessage /\ ~AdmittedBySpec(received[i]))
              => task[i].kind = "ignored" /\ task[i].eng = NoEngine
        /\ (received[i] # NoMessage /\ whitelist = {}
              /\ received[i].groupId # groupId) => task[i].kind = "ignored"

C22_Witness ==
    /\ whitelist = {} /\ groupId = GROUP
    /\ received[1].groupId = "" /\ task[1].kind = "ignored"
    /\ received[2].groupId = GROUP /\ task[2].kind = "route" /\ task[2].pc = "done"
    /\ task[2].result = "ok"

\* C23: for the mappings light.a ("מנורה", "סלון") and light.b ("מנורה גדולה",
\* "סלון") and the text "תדליקי את המנורה הגדולה בסלון", findActionAndEntity
\* returns light.b with the action turn_on.
C23_BigLampResolved ==
    (/\ returned.call = "findActionAndEntity"
     /\ returned.text = T_theBigLamp
     /\ returned.mappings = <<LampA, LampB>>)
        => returned.value = [entity_id |-> "light.b", action |-> "turn_on"]

\* a step in which the history of u was cleared (in SpecStore every other
\* store call replaces returned by its own record).
ClearStep(u) == returned'.call = "clearChatHistory" /\ returned'.userId = u

\* C24: a clear leaves the sender with no stored turn and the turns of every
\* other identity as they were; a clear that directly follows a clear of the
\* same sender deletes zero rows and changes no stored turn.
C24_ClearIsIdempotent ==
    [][\A u \in Senders :
         ClearStep(u) =>
            /\ chat_context'[u] = <<>>
            /\ \A v \in Users \ {u} : chat_context'[v] = chat_context[v]
            /\ returned'.value = Len(chat_context[u])
            /\ (returned.call = "clearChatHistory" /\ returned.userId = u)
                  => /\ returned'.value = 0
                     /\ chat_context' = chat_context]_vars

\* u1, who started with stored turns, was cleared and cleared again; u2
\* still has turns.
C24_Witness ==
    /\ returned.call = "clearChatHistory" /\ returned.userId = "u1"
    /\ returned.value = 0
    /\ chat_context["u1"] = <<>> /\ chat_context["u2"] # <<>>

\* C25: whether an arriving message is dropped depends on its own sender's
\* marker only, so a message of B is accepted while A has one in flight; an
\* arrival adds no marker but its sender's, and a marker is removed only by
\* the completion of that sender's own invocation.
C25_SendersDoNotBlockEachOther ==
    /\ [][\A i \in TaskIds :
            (Arrives(i) /\ task'[i].from \notin processingQueue)
                => /\ task'[i].pc # "dropped"
                   /\ task'[i].path # "none"]_vars
    /\ [][\A i \in TaskIds :
            Arrives(i) =>
                \A s \in Senders \ {task'[i].from} :
                    (s \in processingQueue') = (s \in processingQueue)]_vars
    /\ [][\A s \in Senders :
            (s \in processingQueue /\ s \notin processingQueue')
                => \E i \in TaskIds :
                      /\ task[i].from = s /\ InFlight(i) /\ task'[i].pc = "done"
                      /\ processingQueue' = processingQueue \ {s}]_vars

\* u2's message was accepted, answered and completed while u1's message is
\* still with the engine and u1's marker is still set.
C25_Witness ==
    /\ task[1].kind = "route" /\ task[1].from = "u1" /\ EngineActive(1)
    /\ task[2].kind = "route" /\ task[2].from = "u2"
    /\ task[2].pc = "done" /\ task[2].result = "ok" /\ task[2].out # <<>>
    /\ processingQueue = {"u1"}

\* the engine of task i is inside a text or voice process call.
InProcessCall(i) == task[i].eng.entry \in {"text", "voice"}

UnknownResult(name) ==
    [name |-> name,
     response |-> [kind |-> "error", message |-> <<"Unknown function: ", name>>]]

\* C26: a handler is awaited only for a name in the tool registry; the result
\* recorded and sent for a requested name that is not registered is an error
\* object naming it, and the batch still has one result per requested call, so
\* the calls after the unknown one were gone through as well.
C26_UnknownToolYieldsErrorResult ==
    \A i \in TaskIds :
        InProcessCall(i) =>
            LET e == task[i].eng
            IN  /\ e.pc = "awaitTool" =>
                    /\ e.calls[e.idx] \in toolHandlers
                    /\ \A k \in 1..(e.idx - 1) :
                          e.calls[k] \notin toolHandlers
                              => e.results[k] = UnknownResult(e.calls[k])
                /\ (e.pc = "awaitModel" /\ e.requests > 1) =>
                    /\ Len(e.lastBatch) = Len(e.calls)
                    /\ \A k \in 1..Len(e.calls) :
                          e.calls[k] \notin toolHandlers
                              => e.lastBatch[k] = UnknownResult(e.calls[k])

\* "nope" was requested first: its error result is recorded and the second
\* call, a registered tool, is being executed.
C26_Witness ==
    /\ InProcessCall(1) /\ task[1].eng.pc = "awaitTool"
    /\ task[1].eng.calls = <<"nope", "get_device_state">> /\ task[1].eng.idx = 2
    /\ task[1].eng.results = <<UnknownResult("nope")>>

\* C27: the results of one iteration go to the model in one request, one per
\* requested call and in request order, after the last tool of the iteration
\* has finished: while a tool runs no request beyond the one that asked for
\* it has been made, and a request follows a tool only when no requested call
\* after it has a handler to run.
C27_ResultsSentInOneBatch ==
    /\ [](\A i \in TaskIds :
            InProcessCall(i) =>
                LET e == task[i].eng
                IN  /\ e.pc = "awaitTool" =>
                        /\ e.requests = e.iterations + 1
                        /\ Len(e.results) = e.idx - 1
                    /\ (e.pc = "awaitModel" /\ e.requests > 1) =>
                        /\ e.requests = e.iterations + 2
                        /\ Len(e.lastBatch) = Len(e.calls)
                        /\ \A k \in 1..Len(e.calls) : e.lastBatch[k].name = e.calls[k])
    /\ [][\A i \in TaskIds :
            (EngineAt(i, "awaitTool") /\ task'[i].eng.requests # task[i].eng.requests)
                => /\ \A k \in (task[i].eng.idx + 1)..Len(task[i].eng.calls) :
                          task[i].eng.calls[k] \notin toolHandlers
                   /\ task'[i].eng.requests = task[i].eng.requests + 1
                   /\ Len(task'[i].eng.lastBatch) = Len(task[i].eng.calls)]_vars
    /\ [][\A i \in TaskIds :
            (EngineAt(i, "awaitTool") /\ task'[i].eng.pc = "awaitTool")
                => /\ task'[i].eng.requests = task[i].eng.requests
                   /\ task'[i].eng.lastBatch = task[i].eng.lastBatch]_vars

\* a batch of two results, the first of a tool that threw, was sent after the
\* second tool finished.
C27_Witness ==
    /\ InProcessCall(1) /\ task[1].eng.pc = "awaitModel" /\ task[1].eng.requests = 2
    /\ task[1].eng.calls = <<"list_devices", "get_device_state">>
    /\ Len(task[1].eng.lastBatch) = 2
    /\ task[1].eng.lastBatch[2].response = handlerReturned

\* C28: when the response to the 5th batch still requests tools, the loop is
\* left in the same step without logging or running any of them, the process
\* call returns (it does not fail), and the text of that response, empty or
\* not, is the 'model' turn stored and the value returned.
C28_CapReachedReturnsLastText ==
    /\ [](\A i \in TaskIds :
            (/\ InProcessCall(i)
             /\ task[i].eng.iterations = maxIterations
             /\ task[i].eng.calls # <<>>) =>
                /\ task[i].eng.pc = "returned"
                /\ task[i].ret = task[i].eng.text
                /\ LastRow(chat_context[task[i].eng.userId]) =
                        [role |-> "model", content |-> task[i].eng.text])
    /\ [][\A i \in TaskIds :
            (/\ EngineAt(i, "awaitModel")
             /\ task'[i].eng.iterations = maxIterations
             /\ task'[i].eng.calls # <<>>) =>
                /\ task'[i].eng.auditTotal = task[i].eng.auditTotal
                /\ task'[i].eng.results = task[i].eng.results]_vars

\* the cap was reached with a call pending and an empty text: the empty text
\* is stored and returned.
C28_Witness ==
    /\ InProcessCall(1) /\ task[1].eng.pc = "returned"
    /\ task[1].eng.iterations = maxIterations
    /\ task[1].eng.calls = <<"get_device_state">>
    /\ task[1].eng.text = <<>> /\ task[1].ret = <<>>
    /\ LastRow(chat_context["u1"]) = [role |-> "model", content |-> <<>>]

AuditRowOf(e, k) ==
    [user_id |-> e.userId, action |-> "function_call", details |-> [name |-> e.calls[k]]]

MatchesIgnoringCase(k, text) ==
    /\ keywords[k].enabled = 1
    /\ \E a \in AlternativesOf(keywords[k].keyword) :
          toLowerCase(a) = toLowerCase(trim(text))

\* C30 as stated: keyword matching ignores letter case: a text (not a
\* command) that equals an alternative of an enabled rule up to letter case is
\* matched to the first such rule, as the identically cased text is.
C30_KeywordMatchIgnoresCase ==
    \A i \in TaskIds : \A k \in 1..Len(keywords) :
        (/\ task[i].kind = "route" /\ task[i].pc \notin {"idle", "dropped"}
         /\ ~startsWith(task[i].body, <<"/">>)
         /\ MatchesIgnoringCase(k, task[i].body)
         /\ \A j \in 1..(k - 1) : ~MatchesIgnoringCase(j, task[i].body))
            => task[i].kw = keywords[k]

\* C31: a text matching an enabled rule of type 'ai' leads to exactly one
\* process call, whose input is the rule's payload wrapped as instructions in
\* front of the user's text and whose history is the sender's built history
\* even though the text is device-related; what is sent to the user is the
\* text the engine returned or a fixed error text, never the payload.
C31_AiKeywordAugmentsAndKeepsHistory ==
    /\ [](\A i \in TaskIds :
            task[i].path = "kwAI" =>
                /\ task[i].kw.type = "ai" /\ task[i].kw.enabled = 1
                /\ task[i].engineCalls <= 1
                /\ task[i].pc \notin {"react", "idle"} =>
                      /\ task[i].engineCalls = 1
                      /\ task[i].eng.entry = "text"
                      /\ task[i].eng.input =
                            <<"[Custom Instructions: ">> \o task[i].kw.response
                               \o <<"]\n\nUser message: ">> \o task[i].body
                /\ \A k \in 1..Len(task[i].out) :
                      /\ task[i].out[k].text \in {task[i].eng.text, QuotaText, GenericText}
                      /\ task[i].out[k].text # task[i].kw.response)
    /\ [][\A i \in TaskIds :
            (StartsTextCall(i) /\ task'[i].path = "kwAI")
                => task'[i].eng.history = BuiltBeforeStart(chat_context', task'[i].from)]_vars

\* 'status' (device-related) matched the ai rule: the call got the two stored
\* turns as history and its answer, not the payload, was sent.
C31_Witness ==
    /\ task[1].path = "kwAI" /\ task[1].body = T_status
    /\ _isDeviceRelatedMessage(task[1].eng.input)
    /\ Len(task[1].eng.history) = 2
    /\ task[1].pc = "done" /\ task[1].result = "ok"
    /\ task[1].out = <<[to |-> "u1", text |-> T_ok, ok |-> TRUE]>>

StartsVoiceCall(i) ==
    task[i].eng.pc = "none" /\ task'[i].eng.pc = "awaitModel" /\ task'[i].eng.entry = "voice"

\* C32: processVoiceMessage always starts the chat with the history built
\* from the sender's stored rows, appends the user turn '[Voice Message]'
\* before the model request, goes through the same capped tool loop and, in
\* the step in which it returns, appends one 'model' turn with the returned
\* text.
C32_VoiceCallKeepsHistory ==
    /\ [][\A i \in TaskIds :
            StartsVoiceCall(i) =>
                /\ task'[i].eng.history = BuiltBeforeStart(chat_context', task'[i].from)
                /\ chat_context' =
                      [chat_context EXCEPT ![task'[i].from] =
                          Append(@, [role |-> "user", content |-> T_voice])]]_vars
    /\ [](\A i \in TaskIds :
            task[i].eng.entry = "voice" =>
                /\ task[i].eng.iterations <= maxIterations
                /\ task[i].eng.requests = task[i].eng.iterations + 1
                      \/ (task[i].eng.pc \in {"awaitModel", "failed"}
                          /\ task[i].eng.requests = task[i].eng.iterations + 2))
    /\ [][\A i \in TaskIds :
            (EngineActive(i) /\ task[i].eng.entry = "voice"
                /\ task'[i].eng.pc = "returned") =>
                /\ chat_context' =
                      [chat_context EXCEPT ![task[i].from] =
                          Append(@, [role |-> "model", content |-> task'[i].eng.text])]
                /\ task'[i].ret = task'[i].eng.text]_vars

\* a voice note over two stored turns: the call got them as history, ran one
\* tool iteration and stored both of its turns.
C32_Witness ==
    /\ task[1].eng.entry = "voice" /\ task[1].eng.pc = "returned"
    /\ Len(task[1].eng.history) = 2 /\ task[1].eng.iterations = 1
    /\ Len(chat_context["u1"]) = 4
    /\ chat_context["u1"][3] = [role |-> "user", content |-> T_voice]
    /\ chat_context["u1"][4] = [role |-> "model", content |-> T_ok]

C34_FiringSendsOnlyNonBlankResult ==
    \A i \in TaskIds :
        task[i].kind = "fire" =>
            /\ task[i].result \in {"none", "skipped", "sent", "empty", "failed"}
            /\ task[i].eng.pc = "returned" =>
                  /\ task[i].ret = task[i].eng.text
                  /\ trim(task[i].ret) # <<>>
                        <=> (task[i].pc = "send" \/ task[i].out # <<>>)
            /\ Len(task[i].out) <= 1
            /\ \A k \in 1..Len(task[i].out) :
                  task[i].out[k].to = groupId /\ task[i].out[k].text = task[i].ret
            /\ task[i].result = "sent" =>
                  task[i].out = <<[to |-> groupId, text |-> task[i].ret, ok |-> TRUE]>>
            /\ task[i].result = "empty" => task[i].out = <<>>
            /\ task[i].result = "failed" =>
                  /\ task[i].pc = "done"
                  /\ task[i].eng.pc = "failed" => task[i].out = <<>>
                  /\ task[i].out # <<>> => ~task[i].out[1].ok

\* one firing got a whitespace-only text and sent nothing; another one's
\* send failed and nothing followed it.
C34_Witness ==
    /\ task[1].kind = "fire" /\ task[1].result = "empty"
    /\ task[1].ret = T_blank /\ task[1].out = <<>>
    /\ task[2].kind = "fire" /\ task[2].result = "failed"
    /\ task[2].out = <<[to |-> GROUP, text |-> T_ok, ok |-> FALSE]>>

\* C35: from a reload on, the registered tasks are exactly the enabled prompts
\* whose schedule is well formed in the table as that reload read it, one task
\* per prompt, whatever is edited afterwards; and only a registered task
\* fires, with the prompt text it was registered with.
C35_ReloadRegistersExactlyEnabledValid ==
    /\ [](\A p, q \in scheduledTasks : p.id = q.id => p = q)
    /\ [](returned.call = "reload" => scheduledTasks = Loadable(returned.rows))
    /\ [][\A i \in DOMAIN task :
            Fires(i) => \E p \in scheduledTasks : p.prompt = task'[i].body]_vars

\* The morning prompt fired as first registered, was then edited, and after
\* the reload only its edited definition is registered.
C35_Witness ==
    /\ \E i \in DOMAIN task : task[i].kind = "fire" /\ task[i].body = T_hi
    /\ returned.call = "reload"
    /\ returned.rows = <<PromptHiEdited, PromptLamp>>
    /\ scheduledTasks = {PromptHiEdited, PromptLamp}

Occurs(part, text) == includes(toLowerCase(text), toLowerCase(part))

Candidates(text, mappings) ==
    { k \in DOMAIN mappings : Occurs(mappings[k].nickname, text) }

Remaining(text, mappings) ==
    LET located == { k \in Candidates(text, mappings) :
                       /\ mappings[k].location # <<>>
                       /\ Occurs(mappings[k].location, text) }
    IN  IF located # {} THEN located ELSE Candidates(text, mappings)

\* C36: findActionAndEntity answers not-found when no mapping's nickname
\* occurs in the text; otherwise it answers the entity of a candidate of
\* maximal nickname length among the candidates in mentioned locations, or
\* among all candidates when none of them is in a mentioned location.
C36_NarrowedByLocationThenLongest ==
    returned.call = "findActionAndEntity"
    => LET text == returned.text
           mappings == returned.mappings
       IN  IF Candidates(text, mappings) = {}
           THEN returned.value = NoEntity
           ELSE \E k \in Remaining(text, mappings) :
                    /\ returned.value.entity_id = mappings[k].entity_id
                    /\ \A j \in Remaining(text, mappings) :
                          Len(mappings[j].nickname) <= Len(mappings[k].nickname)

\* The text names the big lamp and the room: the room's lamp is answered
\* although the living room's big lamp has the longer nickname.
C36_Witness ==
    /\ returned.call = "findActionAndEntity"
    /\ returned.text = T_bigLampInRoom
    /\ returned.mappings = <<LampA, LampB, LampRoom>>
    /\ returned.value.entity_id = "light.c"

\* C37 as stated: while an engine call of a sender is in flight, no step
\* empties that sender's stored conversation history.
C37_HistoryKeptWhileEngineCallInFlight ==
    [][\A i \in TaskIds :
        (EngineActive(i) /\ chat_context[task[i].from] # <<>>)
            => chat_context'[task[i].from] # <<>>]_vars

StartsCall(i) == task[i].eng.pc = "none" /\ task'[i].eng.pc = "awaitModel"

EnabledOf(rows, id) == { rows[k].enabled : k \in { j \in DOMAIN rows : rows[j].id = id } }

\* C39 as stated: an accepted update that does not send the enabled field
\* leaves the rule's enabled flag as stored.
C39_UpdateKeepsEnabledFlag ==
    [][(returned' # returned /\ returned'.status = 200 /\ returned'.body.enabled = Undefined)
         => EnabledOf(keywords', returned'.id) = EnabledOf(keywords, returned'.id)]_vars

====
